---- MODULE Spec2Model ----
(***************************************************************************)
(* A model of src/src/run.py, the fine-tuning runner of DialogRE-baselines. *)
(*                                                                         *)
(* The module holds several specifications over one set of variables:      *)
(*   SpecF1      the threshold-search F1 metric (f1_eval, getpred, geteval) *)
(*   SpecBridge  the two gradient-bridge utilities on arbitrary arguments   *)
(*   SpecCollate datset_collate_fn on arbitrary batches                     *)
(*   SpecTrain   the calls of train() of the epoch loop, one step at a time *)
(*   SpecScript  the script from logging.basicConfig to the last export     *)
(* Each specification leaves the variables of the others at their idle     *)
(* values.                                                                 *)
(*                                                                         *)
(* Numbers.  Probabilities are kept in units of 1/10000 (ProbScale), so a  *)
(* threshold T2 = k/100 is the integer k * 100 and T1 = 0.5 is 5000.  The  *)
(* sigmoid of the integer logits of LogitVals is tabulated; none of the    *)
(* tabulated values other than 0 and 0.5 is a multiple of 1/100, so every  *)
(* comparison with a threshold has the outcome it has in floating point.   *)
(* F1 values are the doubles the code computes, held as an exact rational  *)
(* <<n, d>> in lowest terms with the rounding the float arithmetic adds.    *)
(***************************************************************************)
EXTENDS Integers, Sequences, FiniteSets, TLC

\* ------------------------------------------------------------------ bounds

\* The largest number of examples handed to f1_eval.
MaxExamples == 2

\* The width of a logit row (config.num_labels of the run).
NumLabels == 2

\* The logits a model output may hold: a negative one, zero (whose sigmoid is
\* exactly 0.5) and a positive one.
LogitVals == {-1, 0, 1}

\* The relation classes a gold label vector may mark: the first and the last.
GoldClasses == {0, 35}

\* The largest number of named parameters handed to a bridge utility.
MaxParams == 2

\* The parameter names a model may have.
ParamNames == {"weight", "bias", "gamma"}

\* The largest number of samples in a batch, and the largest padded length.
MaxBatch == 2

MaxSeqLen == 2

\* The token ids a sample may hold; the pad token id is 0 (BERT) or 1 (RoBERTa).
TokenIds == {0, 1, 2}

PadTokenIds == {0, 1}

\* The number of batches of the training dataloader, the number of epochs and
\* the largest gradient_accumulation_steps.
NumBatches == 3

NumEpochs == 2

MaxAccum == 2

\* The values a dev metric (accuracy or F1) may take, in halves.
MetricVals == {0, 1, 2}

\* --------------------------------------------------------------- constants

\* The width of a label vector (the assert of f1_eval).
LabelWidth == 36

\* The index that stands for "no relation".
NoRelation == 36

\* The number of thresholds T2 tried: range(51).
NumThresholds == 51

\* One unit of probability is 1/ProbScale: a hundredth of the step of T2.
ProbScale == 100 * 100

\* T1 = 0.5, in units of 1/ProbScale.
T1Default == ProbScale \div 2

VARIABLES
    logits,         \* f1_eval's argument: one row of NumLabels logits per example
    label_id_lst,   \* examples[6]: one 36-entry 0/1 vector per example
    f1pc,           \* where f1_eval stands: "start", "labelled", "searched", "perfect"
    labels,         \* the gold label lists f1_eval builds
    devp_at,        \* devp_at[k + 1]: the predictions getpred gave for T2 = k/100
    f1_at,          \* f1_at[k + 1]: the F1 geteval gave for T2 = k/100
    bestf_1,        \* f1_eval's first result
    bestT2,         \* f1_eval's second result, in hundredths
    perfect_f1      \* geteval(labels, labels), the synthetic perfect prediction

VARIABLES
    br_opti,        \* named_params_optimizer: a list of [name, data, grad]
    br_model,       \* named_params_model: a list of [name, data, grad]
    br_pc,          \* "start", then "returned" or "raised"
    br_call,        \* the utility that was called: "none", "copy", "grad"
    br_is_nan       \* what set_optimizer_params_grad returned

VARIABLES
    pad_token_id,   \* tokenizer.pad_token_id
    samples,        \* the argument of datset_collate_fn: a list of 7-field items
    col_pc,         \* "start", then "collated"
    batch           \* the tuple datset_collate_fn returns, as a record

VARIABLES
    fp16,           \* args.fp16
    optimize_on_cpu,  \* args.optimize_on_cpu
    resume,         \* args.resume
    gradient_accumulation_steps,  \* args.gradient_accumulation_steps
    loss_scale,     \* args.loss_scale, a rational
    model_params,   \* model.named_parameters(): a list of [name, dtype, data, grad]
    param_optimizer,  \* the parameters the optimizer holds
    global_step,    \* the module-level global_step
    epoch_idx,      \* the epoch loop's index
    tr_pc,          \* where the epoch loop and train() stand
    step,           \* train(): the index of the batch
    tr_global_step, \* train(): its parameter global_step
    is_nan,         \* train(): what set_optimizer_params_grad returned
    train_result,   \* what the last call of train() returned
    last,           \* a record of the iteration of train() in progress or just ended
    tally,          \* a record of the call of train() in progress: the batches at
                    \* which optimizer.step() and model.zero_grad() were called, and
                    \* the backward passes summed into the gradients since they
                    \* were last zeroed
    set_to_none     \* the default of zero_grad(set_to_none) in the torch installed

VARIABLES
    do_train,       \* args.do_train
    do_eval,        \* args.do_eval
    do_evalc,       \* args.do_evalc
    f1eval,         \* args.f1eval
    num_train_epochs,  \* int(args.num_train_epochs)
    output_dir,     \* args.output_dir on disk: [exists, model_pt, model_best]
    initial_dir,    \* output_dir as the script found it
    sc_pc,          \* where the script stands
    sc_error,       \* the exception that ended the script, "none" for none
    loaded,         \* the datasets built by build_dataloader
    model_built,    \* whether the model has been built
    weights,        \* the weights the model holds
    best_metric,    \* best_metric of the epoch loop
    sc_epoch,       \* the number of epochs completed
    metrics,        \* the dev metrics of the epochs so far: [acc, f1] each
    saved,          \* for each epoch so far, whether it overwrote model_best.pt
    exported        \* the evaluations of the export step: [data_type, weights] each

f1vars == <<logits, label_id_lst, f1pc, labels, devp_at, f1_at, bestf_1, bestT2, perfect_f1>>

brvars == <<br_opti, br_model, br_pc, br_call, br_is_nan>>

colvars == <<pad_token_id, samples, col_pc, batch>>

trvars == <<fp16, optimize_on_cpu, resume, gradient_accumulation_steps, loss_scale,
            model_params, param_optimizer, global_step, epoch_idx, tr_pc, step,
            tr_global_step, is_nan, train_result, last, tally, set_to_none>>

scvars == <<do_train, do_eval, do_evalc, f1eval, num_train_epochs, output_dir, initial_dir, sc_pc,
            sc_error, loaded, model_built, weights, best_metric, sc_epoch, metrics, saved,
            exported>>

vars == <<f1vars, brvars, colvars, trvars, scvars>>

\* ----------------------------------------------------------- idle values

IdleF1 ==
    /\ logits = <<>>
    /\ label_id_lst = <<>>
    /\ f1pc = "idle"
    /\ labels = <<>>
    /\ devp_at = <<>>
    /\ f1_at = <<>>
    /\ bestf_1 = [val |-> <<0, 1>>, ulp |-> 0]
    /\ bestT2 = 0
    /\ perfect_f1 = [val |-> <<0, 1>>, ulp |-> 0]

IdleBridge ==
    /\ br_opti = <<>>
    /\ br_model = <<>>
    /\ br_pc = "idle"
    /\ br_call = "none"
    /\ br_is_nan = FALSE

IdleCollate ==
    /\ pad_token_id = 0
    /\ samples = <<>>
    /\ col_pc = "idle"
    /\ batch = <<>>

IdleTrain ==
    /\ fp16 = FALSE
    /\ optimize_on_cpu = FALSE
    /\ resume = FALSE
    /\ gradient_accumulation_steps = 1
    /\ loss_scale = <<1, 1>>
    /\ model_params = <<>>
    /\ param_optimizer = <<>>
    /\ global_step = 0
    /\ epoch_idx = 0
    /\ tr_pc = "idle"
    /\ step = 0
    /\ tr_global_step = 0
    /\ is_nan = FALSE
    /\ train_result = <<>>
    /\ last = <<>>
    /\ tally = <<>>
    /\ set_to_none = FALSE

IdleScript ==
    /\ do_train = FALSE
    /\ do_eval = FALSE
    /\ do_evalc = FALSE
    /\ f1eval = FALSE
    /\ num_train_epochs = 0
    /\ output_dir = <<>>
    /\ initial_dir = <<>>
    /\ sc_pc = "idle"
    /\ sc_error = "none"
    /\ loaded = {}
    /\ model_built = FALSE
    /\ weights = <<>>
    /\ best_metric = 0
    /\ sc_epoch = 0
    /\ metrics = <<>>
    /\ saved = <<>>
    /\ exported = <<>>

\* ------------------------------------------------------------- arithmetic

RECURSIVE Gcd(_, _)
Gcd(a, b) == IF b = 0 THEN a ELSE Gcd(b, a % b)

\* The rational n/d (d > 0, n >= 0) in lowest terms.
Rat(n, d) == LET g == Gcd(n, d) IN <<n \div g, d \div g>>

RatAdd(p, q) ==
    LET g == Gcd(p[2], q[2])
    IN Rat(p[1] * (q[2] \div g) + q[1] * (p[2] \div g), (p[2] \div g) * q[2])

RatMul(p, q) ==
    LET g == Gcd(p[1], q[2])
        h == Gcd(q[1], p[2])
    IN <<(p[1] \div g) * (q[1] \div h), (p[2] \div h) * (q[2] \div g)>>

RatDiv(p, q) == RatMul(p, <<q[2], q[1]>>)

RatSub(p, q) == Rat(p[1] * q[2] - q[1] * p[2], p[2] * q[2])

RatGt(p, q) == p[1] * q[2] > q[1] * p[2]

RatZero == <<0, 1>>

RatOne == <<1, 1>>

\* A Python float that geteval computes: the double nearest to the rational
\* val, moved ulp doubles up (down when ulp is negative).  Two of them with
\* different val lie far more than a few doubles apart, so they compare as
\* their val does; with the same val they compare as their ulp does.
FloatOf(r, u) == [val |-> r, ulp |-> u]

FloatZero == FloatOf(RatZero, 0)

FloatOne == FloatOf(RatOne, 0)

\* a > b on two floats.
FloatGt(a, b) == RatGt(a.val, b.val) \/ (a.val = b.val /\ a.ulp > b.ulp)

\* 1 / (1 + exp(-x)) in units of 1/ProbScale, rounded down.
Sigmoid(x) ==
    CASE x = -1000 -> 0
      [] x = -3 -> 474
      [] x = -2 -> 1192
      [] x = -1 -> 2689
      [] x = 0 -> 5000
      [] x = 1 -> 7310
      [] x = 2 -> 8807
      [] x = 3 -> 9525

\* logits = list(1 / (1 + np.exp(-logits)))
Probabilities(lg) == [i \in 1..Len(lg) |-> [j \in 1..Len(lg[i]) |-> Sigmoid(lg[i][j])]]

\* ------------------------------------------------------- gradient bridge

\* A tensor is modelled by one number: a rational, an infinity (val is its
\* sign), NaN, or None for a gradient that does not exist yet.
Num(r) == [kind |-> "num", val |-> r]

NaN == [kind |-> "nan", val |-> <<0, 1>>]

None == [kind |-> "none", val |-> <<0, 1>>]

Inf(sign) == [kind |-> "inf", val |-> <<sign, 1>>]

IsNaN(g) == g.kind = "nan"

RECURSIVE Pow2(_)
Pow2(k) == IF k = 0 THEN 1 ELSE 2 * Pow2(k - 1)

\* The binary exponent of a float16 that holds a magnitude of whole part w >= 1:
\* the e with 2^e <= w < 2^(e + 1), 15 at most.
RECURSIVE HalfExponentUp(_, _)
HalfExponentUp(w, e) ==
    IF e >= 15 \/ w < Pow2(e + 1) THEN e ELSE HalfExponentUp(w, e + 1)

\* The binary exponent of a float16 that holds a magnitude n/d < 1, c being d/n
\* rounded up: the e with 2^e <= n/d, -14 at least (the subnormal numbers).
RECURSIVE HalfExponentDown(_, _)
HalfExponentDown(c, e) ==
    IF e <= -14 \/ Pow2(-e) >= c THEN e ELSE HalfExponentDown(c, e - 1)

\* n * 2^s divided by d: <<quotient, remainder>>.
RECURSIVE ShiftedQuotient(_, _, _)
ShiftedQuotient(n, d, s) ==
    IF s = 0 THEN <<n \div d, n % d>>
    ELSE LET p == ShiftedQuotient(n, d, s - 1)
         IN <<2 * p[1] + (2 * p[2]) \div d, (2 * p[2]) % d>>

\* Round to nearest, ties to even: the quotient q with remainder r of a
\* division by D.
RoundHalfEven(q, r, D) ==
    IF 2 * r > D \/ (2 * r = D /\ q % 2 = 1) THEN q + 1 ELSE q

\* The float16 (IEEE binary16: 11 significant bits, exponents -14..15) nearest
\* to the magnitude n/d > 0, below the overflow to infinity.
HalfOfMagnitude(n, d) ==
    LET e == IF n >= d THEN HalfExponentUp(n \div d, 0)
             ELSE HalfExponentDown((d + n - 1) \div n, -1)
        qr == IF e >= 10 THEN <<n \div (d * Pow2(e - 10)), n % (d * Pow2(e - 10))>>
              ELSE ShiftedQuotient(n, d, 10 - e)
        D == IF e >= 10 THEN d * Pow2(e - 10) ELSE d
        k == RoundHalfEven(qr[1], qr[2], D)
    IN IF e >= 10 THEN Rat(k * Pow2(e - 10), 1) ELSE Rat(k, Pow2(10 - e))

\* Line 62, and model.half(): a value converted to the dtype of the tensor that
\* receives it.  A float16 takes the nearest binary16, ties to even, and
\* infinity from 65520 on; float32 holds all rationals of the model.
CastTo(dtype, x) ==
    IF dtype = "float16" /\ x.kind = "num" /\ x.val[1] # 0
    THEN LET sign == IF x.val[1] < 0 THEN -1 ELSE 1
             n == sign * x.val[1]
             d == x.val[2]
         IN IF n \div d >= 65520 THEN Inf(sign)
            ELSE LET h == HalfOfMagnitude(n, d) IN Num(<<sign * h[1], h[2]>>)
    ELSE x

\* zip(a, b): the number of pairs.
ZipLen(a, b) == IF Len(a) <= Len(b) THEN Len(a) ELSE Len(b)

\* The first position at which the loop over zip(opti, model) sees two
\* different names, 0 when it sees none.
RECURSIVE FirstMismatchFrom(_, _, _)
FirstMismatchFrom(opti, model, i) ==
    IF i > ZipLen(opti, model) THEN 0
    ELSE IF opti[i].name # model[i].name THEN i
    ELSE FirstMismatchFrom(opti, model, i + 1)

\* FirstMismatch without the test name_opti != name_model.
FirstMismatchNever(opti, model) == 0

\* The pair at which the loop of either utility raises ValueError, 0 for none.
FirstMismatch(opti, model) == FirstMismatchFrom(opti, model, 1)

\* The number of pairs the loop of either utility completes: all of zip, or
\* those before the pair that raises.
Completed(opti, model) ==
    LET m == FirstMismatch(opti, model)
    IN IF m = 0 THEN ZipLen(opti, model) ELSE m - 1

\* copy_optimizer_params_to_model without param_model.data.copy_.
copy_nothing_to_model(model, opti) == [raised |-> FirstMismatch(opti, model) # 0, model |-> model]

\* copy_optimizer_params_to_model: param_model.data.copy_(param_opti.data) for
\* every pair until a name differs.
copy_optimizer_params_to_model(model, opti) ==
    [raised |-> FirstMismatch(opti, model) # 0,
     model |-> [i \in 1..Len(model) |->
                  IF i <= Completed(opti, model)
                  THEN [model[i] EXCEPT !.data = CastTo(model[i].dtype, opti[i].data)]
                  ELSE model[i]]]

\* set_optimizer_params_grad without the test torch.isnan(param_model.grad).
set_optimizer_params_grad_untested(opti, model, test_nan) ==
    [raised |-> FirstMismatch(opti, model) # 0,
     is_nan |-> FALSE,
     opti |-> [i \in 1..Len(opti) |->
                 IF i <= Completed(opti, model)
                 THEN [opti[i] EXCEPT !.grad = CastTo(opti[i].dtype, model[i].grad)]
                 ELSE opti[i]]]

\* set_optimizer_params_grad: param_opti.grad.data.copy_(param_model.grad.data)
\* for every pair until a name differs; is_nan when test_nan and a copied
\* gradient holds NaN.
set_optimizer_params_grad(opti, model, test_nan) ==
    [raised |-> FirstMismatch(opti, model) # 0,
     is_nan |-> test_nan /\ \E i \in 1..Completed(opti, model) : IsNaN(model[i].grad),
     opti |-> [i \in 1..Len(opti) |->
                 IF i <= Completed(opti, model)
                 THEN [opti[i] EXCEPT !.grad = CastTo(opti[i].dtype, model[i].grad)]
                 ELSE opti[i]]]

\* ------------------------------------------------------ datset_collate_fn

\* torch.stack([itm[f] for itm in samples], dim=0): one row per sample.
Stack(smp, f) == [r \in 1..Len(smp) |-> smp[r][f]]

\* The number of columns of a stacked matrix (0 for an empty batch).
Width(m) == IF Len(m) = 0 THEN 0 ELSE Len(m[1])

\* KeepColumnMask with all(dim=0) for any(dim=0).
KeepColumnMaskAll(ids, pad) ==
    [c \in 1..Width(ids) |-> \A r \in 1..Len(ids) : ids[r][c] # pad]

\* input_ids.ne(tokenizer.pad_token_id).any(dim=0)
KeepColumnMask(ids, pad) ==
    [c \in 1..Width(ids) |-> \E r \in 1..Len(ids) : ids[r][c] # pad]

\* row[keep]: the entries of a row at the columns c.. the mask keeps, in order.
RECURSIVE SelectFrom(_, _, _)
SelectFrom(row, keep, c) ==
    IF c > Len(row) THEN <<>>
    ELSE (IF keep[c] THEN <<row[c]>> ELSE <<>>) \o SelectFrom(row, keep, c + 1)

\* m[:, keep_column_mask]
SelectColumns(m, keep) == [r \in 1..Len(m) |-> SelectFrom(m[r], keep, 1)]

datset_collate_fn(smp, pad) ==
    LET input_ids == Stack(smp, "input_ids")
        keep_column_mask == KeepColumnMask(input_ids, pad)
    IN [input_ids |-> SelectColumns(input_ids, keep_column_mask),
        input_lens |-> Stack(smp, "input_len"),
        input_mask |-> SelectColumns(Stack(smp, "input_mask"), keep_column_mask),
        segment_ids |-> SelectColumns(Stack(smp, "segment_ids"), keep_column_mask),
        e1_mask |-> SelectColumns(Stack(smp, "e1_mask"), keep_column_mask),
        e2_mask |-> SelectColumns(Stack(smp, "e2_mask"), keep_column_mask),
        label_ids |-> Stack(smp, "label_id")]

\* ---------------------------------------------------------------- getpred

\* The inner loop of getpred over the classes j..len(row)-1 of one example:
\* r collects the classes above T1, (maxl, maxj) the first highest score.
RECURSIVE GetPredScan(_, _, _, _, _, _)
GetPredScan(row, j, r, maxl, maxj, T1) ==
    IF j >= Len(row) THEN [r |-> r, maxl |-> maxl, maxj |-> maxj]
    ELSE LET x == row[j + 1]
             r2 == IF x > T1 THEN Append(r, j) ELSE r
         IN IF x > maxl
            THEN GetPredScan(row, j + 1, r2, x, j, T1)
            ELSE GetPredScan(row, j + 1, r2, maxl, maxj, T1)

\* GetPredRow with the fallback comparing with < where the code has <=.
GetPredRowStrict(row, T1, T2) ==
    LET s == GetPredScan(row, 0, <<>>, -ProbScale, -1, T1)
    IN IF Len(s.r) = 0
       THEN IF s.maxl < T2 THEN <<NoRelation>> ELSE Append(s.r, s.maxj)
       ELSE s.r

\* One example of getpred: the body of the loop over i.
GetPredRow(row, T1, T2) ==
    LET s == GetPredScan(row, 0, <<>>, -ProbScale, -1, T1)
    IN IF Len(s.r) = 0
       THEN IF s.maxl <= T2 THEN <<NoRelation>> ELSE Append(s.r, s.maxj)
       ELSE s.r

\* getpred(result, T1, T2), thresholds in units of 1/ProbScale.
getpred(result, T1, T2) == [i \in 1..Len(result) |-> GetPredRow(result[i], T1, T2)]

\* ---------------------------------------------------------------- geteval

InSeq(x, s) == \E n \in 1..Len(s) : s[n] = x

\* The entries of a list that are not "no relation": the tests id != 36.
CountNot36(s) == Cardinality({n \in 1..Len(s) : s[n] # NoRelation})

\* The entries of a gold list that are not 36 and occur in the predictions p.
CountHit(s, p) == Cardinality({n \in 1..Len(s) : s[n] # NoRelation /\ InSeq(s[n], p)})

\* The three counters of geteval after the loop over the examples i..len(data).
RECURSIVE GetEvalCount(_, _, _)
GetEvalCount(devp, data, i) ==
    IF i > Len(data) THEN [correct_sys |-> 0, all_sys |-> 0, correct_gt |-> 0]
    ELSE LET rest == GetEvalCount(devp, data, i + 1)
         IN [correct_sys |-> rest.correct_sys + CountHit(data[i], devp[i]),
             all_sys |-> rest.all_sys + CountNot36(devp[i]),
             correct_gt |-> rest.correct_gt + CountNot36(data[i])]

\* ------------------------------------------------- the doubles of geteval

\* A natural number of any size as its digits to the base 2^LimbBits, the most
\* significant first and no leading zero; 0 is the empty sequence.
LimbBits == 13

Base == Pow2(LimbBits)

Zeros(k) == [i \in 1..k |-> 0]

RECURSIVE StripZeros(_)
StripZeros(b) ==
    IF Len(b) = 0 \/ b[1] # 0 THEN b ELSE StripZeros(Tail(b))

\* The number of a natural n.
RECURSIVE BigOfNat(_)
BigOfNat(n) ==
    IF n = 0 THEN <<>> ELSE Append(BigOfNat(n \div Base), n % Base)

\* The natural of a number small enough to be one.
RECURSIVE NatOfBig(_)
NatOfBig(b) ==
    IF Len(b) = 0 THEN 0
    ELSE Base * NatOfBig(SubSeq(b, 1, Len(b) - 1)) + b[Len(b)]

\* a < b.
BigLess(a, b) ==
    \/ Len(a) < Len(b)
    \/ /\ Len(a) = Len(b)
       /\ \E i \in 1..Len(a) :
              /\ a[i] < b[i]
              /\ \A j \in 1..(i - 1) : a[j] = b[j]

\* The digits 1..i of a + b + carry for a and b of one length, with the carry
\* out of the first digit in front.
RECURSIVE AddFrom(_, _, _, _)
AddFrom(a, b, i, carry) ==
    IF i = 0 THEN (IF carry = 0 THEN <<>> ELSE <<carry>>)
    ELSE LET s == a[i] + b[i] + carry
         IN Append(AddFrom(a, b, i - 1, s \div Base), s % Base)

\* a + b.
BigAdd(a, b) ==
    LET n == IF Len(a) > Len(b) THEN Len(a) ELSE Len(b)
    IN StripZeros(AddFrom(Zeros(n - Len(a)) \o a, Zeros(n - Len(b)) \o b, n, 0))

\* The digits 1..i of a - b - borrow for a and b of one length, a >= b.
RECURSIVE SubFrom(_, _, _, _)
SubFrom(a, b, i, borrow) ==
    IF i = 0 THEN <<>>
    ELSE LET s == a[i] - b[i] - borrow
         IN Append(SubFrom(a, b, i - 1, IF s < 0 THEN 1 ELSE 0),
                   IF s < 0 THEN s + Base ELSE s)

\* a - b for a >= b.
BigSub(a, b) ==
    StripZeros(SubFrom(a, Zeros(Len(a) - Len(b)) \o b, Len(a), 0))

\* The digits 1..i of a * k + carry for a natural k < Base.
RECURSIVE MulSmallFrom(_, _, _, _)
MulSmallFrom(a, k, i, carry) ==
    IF i = 0 THEN (IF carry = 0 THEN <<>> ELSE <<carry>>)
    ELSE LET s == a[i] * k + carry
         IN Append(MulSmallFrom(a, k, i - 1, s \div Base), s % Base)

\* a * k for a natural k < Base.
BigMulSmall(a, k) == StripZeros(MulSmallFrom(a, k, Len(a), 0))

\* a * b, from the digits 1..i of b.
RECURSIVE MulFrom(_, _, _)
MulFrom(a, b, i) ==
    IF i = 0 THEN <<>>
    ELSE LET rest == MulFrom(a, b, i - 1)
             shifted == IF Len(rest) = 0 THEN rest ELSE Append(rest, 0)
         IN BigAdd(shifted, BigMulSmall(a, b[i]))

BigMul(a, b) == MulFrom(a, b, Len(b))

\* a * 2^t.
ShiftLeft(a, t) ==
    IF Len(a) = 0 THEN a
    ELSE BigMulSmall(a, Pow2(t % LimbBits)) \o Zeros(t \div LimbBits)

\* a \div k and a % k for a natural k in 1..Base, over the digits 1..i of a.
RECURSIVE DivSmallFrom(_, _, _)
DivSmallFrom(a, k, i) ==
    IF i = 0 THEN [q |-> <<>>, r |-> 0]
    ELSE LET rest == DivSmallFrom(a, k, i - 1)
             s == rest.r * Base + a[i]
         IN [q |-> Append(rest.q, s \div k), r |-> s % k]

\* a \div 2^t, and whether a digit 1 was dropped.
ShiftRight(a, t) ==
    LET limbs == t \div LimbBits
        high == SubSeq(a, 1, Len(a) - limbs)
        low == SubSeq(a, Len(a) - limbs + 1, Len(a))
        qr == DivSmallFrom(high, Pow2(t % LimbBits), Len(high))
    IN [q |-> StripZeros(qr.q),
        more |-> qr.r # 0 \/ \E i \in 1..Len(low) : low[i] # 0]

\* The number of binary digits of a natural n, and of a.
RECURSIVE NatLength(_)
NatLength(n) == IF n = 0 THEN 0 ELSE 1 + NatLength(n \div 2)

BitLength(a) ==
    IF Len(a) = 0 THEN 0 ELSE LimbBits * (Len(a) - 1) + NatLength(a[1])

\* One digit of the long division by d, whose first digit is Base \div 2 at
\* least: the digit q with q * d <= r < (q + 1) * d for r < d * Base.  The
\* first two digits of r divided by the first of d give q or up to 2 more.
QuotientDigit(r, d) ==
    LET padded == Zeros(Len(d) + 1 - Len(r)) \o r
        guess == (padded[1] * Base + padded[2]) \div d[1]
        q == IF guess > Base - 1 THEN Base - 1 ELSE guess
    IN IF ~BigLess(r, BigMulSmall(d, q)) THEN q
       ELSE IF ~BigLess(r, BigMulSmall(d, q - 1)) THEN q - 1
       ELSE q - 2

\* Long division of n by d over the digits 1..i of n: the quotient q (with
\* leading zeros) and the remainder r.
RECURSIVE DivFrom(_, _, _)
DivFrom(n, d, i) ==
    IF i = 0 THEN [q |-> <<>>, r |-> <<>>]
    ELSE LET rest == DivFrom(n, d, i - 1)
             r == IF Len(rest.r) = 0 /\ n[i] = 0 THEN <<>> ELSE Append(rest.r, n[i])
             q == IF BigLess(r, d) THEN 0 ELSE QuotientDigit(r, d)
         IN [q |-> Append(rest.q, q), r |-> BigSub(r, BigMulSmall(d, q))]

\* A double greater than 0: its significand m of SignificandBits binary
\* digits and the exponent e of the last of them, so that it is m * 2^e.
SignificandBits == 53

\* The double nearest to a * 2^e, or to a number between that and
\* (a + 1) * 2^e when more is set, ties to the even significand; a has more
\* than SignificandBits digits whenever more is set.
RoundToDouble(a, e, more) ==
    LET drop == BitLength(a) - SignificandBits
        guarded == ShiftRight(a, drop - 1)
        halves == DivSmallFrom(guarded.q, 2, Len(guarded.q))
        kept == StripZeros(halves.q)
        up == halves.r = 1 /\ (guarded.more \/ more \/ kept[Len(kept)] % 2 = 1)
        rounded == IF up THEN BigAdd(kept, <<1>>) ELSE kept
    IN IF drop <= 0 THEN [m |-> ShiftLeft(a, -drop), e |-> e + drop]
       ELSE IF BitLength(rounded) > SignificandBits
       THEN [m |-> ShiftRight(rounded, 1).q, e |-> e + drop + 1]
       ELSE [m |-> rounded, e |-> e + drop]

\* The digits i.. of n / d after the point, for the remainder r so far.
RECURSIVE FractionDigits(_, _, _)
FractionDigits(r, d, i) ==
    IF i = 0 THEN [q |-> <<>>, r |-> r]
    ELSE LET rest == FractionDigits((r * Base) % d, d, i - 1)
         IN [q |-> <<(r * Base) \div d>> \o rest.q, r |-> rest.r]

\* n / d on two ints, 0 < n and 0 < d < 2^18, as Python's true division rounds
\* it: 6 digits after the point are 60 binary digits of the quotient at least.
DoubleOfQuotient(n, d) ==
    LET digits == FractionDigits(n % d, d, 6)
    IN RoundToDouble(StripZeros(BigOfNat(n \div d) \o digits.q), -6 * LimbBits,
                     digits.r # 0)

\* 2 * x, exact.
DoubleTwice(x) == [m |-> x.m, e |-> x.e + 1]

\* x * y on two doubles.
DoubleMul(x, y) == RoundToDouble(BigMul(x.m, y.m), x.e + y.e, FALSE)

\* x + y on two doubles.
DoubleAdd(x, y) ==
    LET e == IF x.e < y.e THEN x.e ELSE y.e
    IN RoundToDouble(BigAdd(ShiftLeft(x.m, x.e - e), ShiftLeft(y.m, y.e - e)), e, FALSE)

\* x / y on two doubles: the significand of y, moved up to 5 full digits,
\* divides that of x moved up by 5 digits more.
DoubleDiv(x, y) ==
    LET up == 5 * LimbBits - SignificandBits
        n == ShiftLeft(x.m, up) \o Zeros(5)
        qr == DivFrom(n, ShiftLeft(y.m, up), Len(n))
    IN RoundToDouble(StripZeros(qr.q), x.e - y.e - 5 * LimbBits, Len(qr.r) # 0)

\* Lines 122-124 for correct_sys > 0 and correct_gt > 0, each operation rounded
\* as the code rounds it: 2 * precision * recall / (precision + recall).
F1Double(c) ==
    LET precision == IF c.all_sys = 0 THEN DoubleOfQuotient(1, 1)
                     ELSE DoubleOfQuotient(c.correct_sys, c.all_sys)
        recall == DoubleOfQuotient(c.correct_sys, c.correct_gt)
    IN DoubleDiv(DoubleMul(DoubleTwice(precision), recall), DoubleAdd(precision, recall))

\* The number of doubles from y up to x (negative when x < y), for x and y at
\* most one power of two apart.
DoublesBetween(x, y) ==
    LET lowest == ShiftLeft(<<1>>, SignificandBits - 1)
        Above(d) == NatOfBig(BigSub(d.m, lowest))
        Below(d) == NatOfBig(BigSub(ShiftLeft(lowest, 1), d.m))
    IN IF x.e = y.e
       THEN (IF BigLess(x.m, y.m) THEN -NatOfBig(BigSub(y.m, x.m))
             ELSE NatOfBig(BigSub(x.m, y.m)))
       ELSE IF x.e > y.e THEN Above(x) + Below(y)
       ELSE -(Below(x) + Above(y))

\* Lines 122-124 in exact arithmetic: f_1 as a rational, 0 when
\* precision + recall is 0.
F1Exact(c) ==
    LET precision == IF c.all_sys = 0 THEN RatOne ELSE Rat(c.correct_sys, c.all_sys)
        recall == IF c.correct_gt = 0 THEN RatZero ELSE Rat(c.correct_sys, c.correct_gt)
        sum == RatAdd(precision, recall)
    IN IF sum # RatZero THEN RatDiv(RatMul(RatMul(<<2, 1>>, precision), recall), sum)
       ELSE RatZero

\* The doubles by which f_1 misses the double nearest to its exact value.
F1Rounding(c) ==
    LET exact == F1Exact(c)
    IN DoublesBetween(F1Double(c), DoubleOfQuotient(exact[1], exact[2]))

\* F1Rounding for the small counters, computed once.  For the counters
\* <<correct_sys, all_sys, correct_gt>> listed here f_1 does not come out as
\* the double nearest to the exact quotient but one double above it, one below
\* it, two above it or two below it.  The tables hold every such case with
\* 1 <= correct_sys <= all_sys <= F1TableLimit and correct_sys <= correct_gt <=
\* F1TableLimit; 3, 5, 4 (f_1 = 0.6666666666666665) is one of them and 2, 2, 4
\* (f_1 = 0.6666666666666666) is not.
F1TableLimit == 16

F1UlpAbove ==
    {<<1, 1, 5>>, <<1, 1, 11>>, <<1, 1, 13>>, <<1, 2, 5>>, <<1, 2, 7>>, <<1, 2, 10>>,
     <<1, 2, 13>>, <<1, 3, 4>>, <<1, 3, 11>>, <<1, 4, 3>>, <<1, 4, 5>>, <<1, 4, 10>>,
     <<1, 4, 14>>, <<1, 4, 15>>, <<1, 5, 1>>, <<1, 5, 2>>, <<1, 5, 4>>, <<1, 5, 5>>,
     <<1, 5, 11>>, <<1, 6, 8>>, <<1, 6, 11>>, <<1, 7, 2>>, <<1, 7, 12>>, <<1, 8, 6>>,
     <<1, 8, 10>>, <<1, 8, 11>>, <<1, 8, 13>>, <<1, 8, 15>>, <<1, 9, 10>>, <<1, 9, 12>>,
     <<1, 9, 13>>, <<1, 9, 15>>, <<1, 10, 2>>, <<1, 10, 4>>, <<1, 10, 8>>, <<1, 10, 9>>,
     <<1, 10, 10>>, <<1, 10, 11>>, <<1, 11, 1>>, <<1, 11, 3>>, <<1, 11, 5>>, <<1, 11, 6>>,
     <<1, 11, 8>>, <<1, 11, 10>>, <<1, 11, 13>>, <<1, 12, 7>>, <<1, 12, 9>>, <<1, 12, 16>>,
     <<1, 13, 1>>, <<1, 13, 2>>, <<1, 13, 8>>, <<1, 13, 9>>, <<1, 13, 11>>, <<1, 13, 14>>,
     <<1, 13, 15>>, <<1, 14, 4>>, <<1, 14, 13>>, <<1, 15, 4>>, <<1, 15, 8>>, <<1, 15, 9>>,
     <<1, 15, 13>>, <<1, 15, 16>>, <<1, 16, 12>>, <<1, 16, 15>>, <<2, 2, 5>>, <<2, 2, 7>>,
     <<2, 2, 10>>, <<2, 2, 13>>, <<2, 3, 4>>, <<2, 3, 11>>, <<2, 4, 3>>, <<2, 4, 5>>,
     <<2, 4, 10>>, <<2, 4, 14>>, <<2, 4, 15>>, <<2, 5, 2>>, <<2, 5, 4>>, <<2, 5, 5>>,
     <<2, 5, 11>>, <<2, 6, 8>>, <<2, 6, 11>>, <<2, 7, 2>>, <<2, 7, 12>>, <<2, 8, 6>>,
     <<2, 8, 10>>, <<2, 8, 11>>, <<2, 8, 13>>, <<2, 8, 15>>, <<2, 9, 10>>, <<2, 9, 12>>,
     <<2, 9, 13>>, <<2, 9, 15>>, <<2, 10, 2>>, <<2, 10, 4>>, <<2, 10, 8>>, <<2, 10, 9>>,
     <<2, 10, 10>>, <<2, 10, 11>>, <<2, 11, 3>>, <<2, 11, 5>>, <<2, 11, 6>>, <<2, 11, 8>>,
     <<2, 11, 10>>, <<2, 11, 13>>, <<2, 12, 7>>, <<2, 12, 9>>, <<2, 12, 16>>, <<2, 13, 2>>,
     <<2, 13, 8>>, <<2, 13, 9>>, <<2, 13, 11>>, <<2, 13, 14>>, <<2, 13, 15>>, <<2, 14, 4>>,
     <<2, 14, 13>>, <<2, 15, 4>>, <<2, 15, 8>>, <<2, 15, 9>>, <<2, 15, 13>>, <<2, 15, 16>>,
     <<2, 16, 12>>, <<2, 16, 15>>, <<3, 3, 15>>, <<3, 4, 15>>, <<3, 5, 13>>, <<3, 6, 15>>,
     <<3, 7, 15>>, <<3, 8, 15>>, <<3, 9, 12>>, <<3, 9, 13>>, <<3, 12, 9>>, <<3, 12, 13>>,
     <<3, 12, 15>>, <<3, 13, 5>>, <<3, 13, 9>>, <<3, 13, 12>>, <<3, 13, 14>>, <<3, 14, 13>>,
     <<3, 14, 15>>, <<3, 15, 3>>, <<3, 15, 4>>, <<3, 15, 6>>, <<3, 15, 7>>, <<3, 15, 8>>,
     <<3, 15, 12>>, <<3, 15, 14>>, <<3, 15, 15>>, <<3, 15, 16>>, <<3, 16, 15>>, <<4, 4, 5>>,
     <<4, 4, 10>>, <<4, 4, 14>>, <<4, 4, 15>>, <<4, 5, 4>>, <<4, 5, 5>>, <<4, 5, 11>>,
     <<4, 6, 8>>, <<4, 6, 11>>, <<4, 7, 12>>, <<4, 8, 6>>, <<4, 8, 10>>, <<4, 8, 11>>,
     <<4, 8, 13>>, <<4, 8, 15>>, <<4, 9, 10>>, <<4, 9, 12>>, <<4, 9, 13>>, <<4, 9, 15>>,
     <<4, 10, 4>>, <<4, 10, 8>>, <<4, 10, 9>>, <<4, 10, 10>>, <<4, 10, 11>>, <<4, 11, 5>>,
     <<4, 11, 6>>, <<4, 11, 8>>, <<4, 11, 10>>, <<4, 11, 13>>, <<4, 12, 7>>, <<4, 12, 9>>,
     <<4, 12, 16>>, <<4, 13, 8>>, <<4, 13, 9>>, <<4, 13, 11>>, <<4, 13, 14>>, <<4, 13, 15>>,
     <<4, 14, 4>>, <<4, 14, 13>>, <<4, 15, 4>>, <<4, 15, 8>>, <<4, 15, 9>>, <<4, 15, 13>>,
     <<4, 15, 16>>, <<4, 16, 12>>, <<4, 16, 15>>, <<5, 6, 9>>, <<5, 7, 9>>, <<5, 7, 14>>,
     <<5, 8, 13>>, <<5, 9, 6>>, <<5, 9, 7>>, <<5, 9, 12>>, <<5, 9, 13>>, <<5, 10, 13>>,
     <<5, 12, 9>>, <<5, 12, 15>>, <<5, 13, 8>>, <<5, 13, 9>>, <<5, 13, 10>>, <<5, 13, 14>>,
     <<5, 14, 7>>, <<5, 14, 13>>, <<5, 15, 12>>, <<6, 6, 15>>, <<6, 7, 15>>, <<6, 8, 15>>,
     <<6, 9, 12>>, <<6, 9, 13>>, <<6, 12, 9>>, <<6, 12, 13>>, <<6, 12, 15>>, <<6, 13, 9>>,
     <<6, 13, 12>>, <<6, 13, 14>>, <<6, 14, 13>>, <<6, 14, 15>>, <<6, 15, 6>>, <<6, 15, 7>>,
     <<6, 15, 8>>, <<6, 15, 12>>, <<6, 15, 14>>, <<6, 15, 15>>, <<6, 15, 16>>, <<6, 16, 15>>,
     <<7, 7, 9>>, <<7, 7, 13>>, <<7, 8, 9>>, <<7, 8, 12>>, <<7, 8, 13>>, <<7, 9, 7>>,
     <<7, 9, 8>>, <<7, 9, 11>>, <<7, 10, 12>>, <<7, 11, 9>>, <<7, 11, 15>>, <<7, 12, 8>>,
     <<7, 12, 10>>, <<7, 12, 15>>, <<7, 13, 7>>, <<7, 13, 8>>, <<7, 13, 14>>, <<7, 14, 13>>,
     <<7, 15, 11>>, <<7, 15, 12>>, <<8, 8, 10>>, <<8, 8, 11>>, <<8, 8, 13>>, <<8, 8, 15>>,
     <<8, 9, 10>>, <<8, 9, 12>>, <<8, 9, 13>>, <<8, 9, 15>>, <<8, 10, 8>>, <<8, 10, 9>>,
     <<8, 10, 10>>, <<8, 10, 11>>, <<8, 11, 8>>, <<8, 11, 10>>, <<8, 11, 13>>, <<8, 12, 9>>,
     <<8, 12, 16>>, <<8, 13, 8>>, <<8, 13, 9>>, <<8, 13, 11>>, <<8, 13, 14>>, <<8, 13, 15>>,
     <<8, 14, 13>>, <<8, 15, 8>>, <<8, 15, 9>>, <<8, 15, 13>>, <<8, 15, 16>>, <<8, 16, 12>>,
     <<8, 16, 15>>, <<9, 9, 10>>, <<9, 10, 9>>, <<9, 10, 11>>, <<9, 10, 15>>, <<9, 11, 10>>,
     <<9, 11, 13>>, <<9, 11, 14>>, <<9, 12, 14>>, <<9, 13, 11>>, <<9, 14, 11>>, <<9, 14, 12>>,
     <<9, 14, 16>>, <<9, 15, 10>>, <<9, 16, 14>>, <<10, 10, 13>>, <<10, 12, 15>>, <<10, 13, 10>>,
     <<10, 13, 14>>, <<10, 14, 13>>, <<10, 15, 12>>, <<11, 14, 16>>, <<11, 16, 14>>, <<12, 12, 13>>,
     <<12, 12, 15>>, <<12, 13, 12>>, <<12, 13, 14>>, <<12, 14, 13>>, <<12, 14, 15>>, <<12, 15, 12>>,
     <<12, 15, 14>>, <<12, 15, 15>>, <<12, 15, 16>>, <<12, 16, 15>>, <<13, 13, 14>>, <<13, 14, 13>>}

F1UlpBelow ==
    {<<1, 1, 9>>, <<1, 2, 9>>, <<1, 3, 10>>, <<1, 4, 9>>, <<1, 5, 6>>, <<1, 5, 14>>,
     <<1, 6, 5>>, <<1, 6, 7>>, <<1, 6, 15>>, <<1, 7, 6>>, <<1, 9, 1>>, <<1, 9, 2>>,
     <<1, 9, 4>>, <<1, 9, 11>>, <<1, 10, 3>>, <<1, 10, 12>>, <<1, 11, 9>>, <<1, 11, 15>>,
     <<1, 12, 10>>, <<1, 12, 14>>, <<1, 14, 5>>, <<1, 14, 12>>, <<1, 14, 15>>, <<1, 15, 6>>,
     <<1, 15, 11>>, <<1, 15, 14>>, <<2, 2, 9>>, <<2, 3, 10>>, <<2, 4, 9>>, <<2, 5, 6>>,
     <<2, 5, 14>>, <<2, 6, 5>>, <<2, 6, 7>>, <<2, 6, 15>>, <<2, 7, 6>>, <<2, 9, 2>>,
     <<2, 9, 4>>, <<2, 9, 11>>, <<2, 10, 3>>, <<2, 10, 12>>, <<2, 11, 9>>, <<2, 11, 15>>,
     <<2, 12, 10>>, <<2, 12, 14>>, <<2, 14, 5>>, <<2, 14, 12>>, <<2, 14, 15>>, <<2, 15, 6>>,
     <<2, 15, 11>>, <<2, 15, 14>>, <<3, 3, 5>>, <<3, 3, 10>>, <<3, 4, 5>>, <<3, 4, 10>>,
     <<3, 4, 11>>, <<3, 4, 13>>, <<3, 5, 3>>, <<3, 5, 4>>, <<3, 5, 8>>, <<3, 5, 11>>,
     <<3, 6, 7>>, <<3, 6, 10>>, <<3, 6, 11>>, <<3, 7, 6>>, <<3, 7, 8>>, <<3, 7, 10>>,
     <<3, 7, 11>>, <<3, 7, 16>>, <<3, 8, 5>>, <<3, 8, 7>>, <<3, 8, 10>>, <<3, 10, 3>>,
     <<3, 10, 4>>, <<3, 10, 6>>, <<3, 10, 7>>, <<3, 10, 8>>, <<3, 10, 11>>, <<3, 10, 16>>,
     <<3, 11, 4>>, <<3, 11, 5>>, <<3, 11, 6>>, <<3, 11, 7>>, <<3, 11, 10>>, <<3, 11, 14>>,
     <<3, 11, 15>>, <<3, 12, 14>>, <<3, 13, 4>>, <<3, 14, 11>>, <<3, 14, 12>>, <<3, 14, 16>>,
     <<3, 15, 11>>, <<3, 16, 7>>, <<3, 16, 10>>, <<3, 16, 14>>, <<4, 4, 9>>, <<4, 5, 6>>,
     <<4, 5, 14>>, <<4, 6, 5>>, <<4, 6, 7>>, <<4, 6, 15>>, <<4, 7, 6>>, <<4, 9, 4>>,
     <<4, 9, 11>>, <<4, 10, 12>>, <<4, 11, 9>>, <<4, 11, 15>>, <<4, 12, 10>>, <<4, 12, 14>>,
     <<4, 14, 5>>, <<4, 14, 12>>, <<4, 14, 15>>, <<4, 15, 6>>, <<4, 15, 11>>, <<4, 15, 14>>,
     <<5, 5, 7>>, <<5, 6, 7>>, <<5, 7, 5>>, <<5, 7, 6>>, <<5, 7, 10>>, <<5, 7, 15>>,
     <<5, 9, 16>>, <<5, 10, 7>>, <<5, 10, 14>>, <<5, 11, 13>>, <<5, 11, 15>>, <<5, 11, 16>>,
     <<5, 12, 14>>, <<5, 13, 11>>, <<5, 13, 15>>, <<5, 14, 10>>, <<5, 14, 12>>, <<5, 14, 15>>,
     <<5, 15, 7>>, <<5, 15, 11>>, <<5, 15, 13>>, <<5, 15, 14>>, <<5, 16, 9>>, <<5, 16, 11>>,
     <<6, 6, 7>>, <<6, 6, 10>>, <<6, 6, 11>>, <<6, 7, 6>>, <<6, 7, 8>>, <<6, 7, 10>>,
     <<6, 7, 11>>, <<6, 7, 16>>, <<6, 8, 7>>, <<6, 8, 10>>, <<6, 10, 6>>, <<6, 10, 7>>,
     <<6, 10, 8>>, <<6, 10, 11>>, <<6, 10, 16>>, <<6, 11, 6>>, <<6, 11, 7>>, <<6, 11, 10>>,
     <<6, 11, 14>>, <<6, 11, 15>>, <<6, 12, 14>>, <<6, 14, 11>>, <<6, 14, 12>>, <<6, 14, 16>>,
     <<6, 15, 11>>, <<6, 16, 7>>, <<6, 16, 10>>, <<6, 16, 14>>, <<7, 8, 10>>, <<7, 8, 15>>,
     <<7, 9, 10>>, <<7, 10, 8>>, <<7, 10, 9>>, <<7, 10, 13>>, <<7, 12, 13>>, <<7, 13, 10>>,
     <<7, 13, 12>>, <<7, 15, 8>>, <<8, 9, 11>>, <<8, 10, 12>>, <<8, 11, 9>>, <<8, 11, 15>>,
     <<8, 12, 10>>, <<8, 12, 14>>, <<8, 14, 12>>, <<8, 14, 15>>, <<8, 15, 11>>, <<8, 15, 14>>,
     <<9, 9, 13>>, <<9, 9, 15>>, <<9, 10, 13>>, <<9, 11, 12>>, <<9, 12, 11>>, <<9, 12, 13>>,
     <<9, 12, 15>>, <<9, 13, 9>>, <<9, 13, 10>>, <<9, 13, 12>>, <<9, 15, 9>>, <<9, 15, 12>>,
     <<9, 15, 16>>, <<9, 16, 15>>, <<10, 10, 14>>, <<10, 11, 13>>, <<10, 11, 15>>, <<10, 11, 16>>,
     <<10, 12, 14>>, <<10, 13, 11>>, <<10, 13, 15>>, <<10, 14, 10>>, <<10, 14, 12>>, <<10, 14, 15>>,
     <<10, 15, 11>>, <<10, 15, 13>>, <<10, 15, 14>>, <<10, 16, 11>>, <<11, 11, 15>>, <<11, 12, 13>>,
     <<11, 13, 12>>, <<11, 13, 15>>, <<11, 15, 11>>, <<11, 15, 13>>, <<11, 15, 16>>, <<11, 16, 15>>,
     <<12, 12, 14>>, <<12, 14, 12>>, <<12, 14, 16>>, <<12, 16, 14>>, <<13, 14, 16>>, <<13, 16, 14>>}

F1TwoUlpAbove ==
    {<<3, 9, 16>>, <<3, 16, 9>>, <<6, 9, 16>>, <<6, 16, 9>>}

F1TwoUlpBelow ==
    {<<3, 11, 13>>, <<3, 13, 11>>, <<6, 11, 13>>, <<6, 13, 11>>}

\* The doubles by which f_1 misses the double nearest to its exact value: read
\* from the tables for the counters they cover, computed by F1Rounding for all
\* others.  With correct_sys = 0 or correct_gt = 0 f_1 is 0.
F1Ulp(c) ==
    LET counters == <<c.correct_sys, c.all_sys, c.correct_gt>>
    IN IF c.correct_sys = 0 \/ c.correct_gt = 0 THEN 0
       ELSE IF /\ c.correct_sys <= c.all_sys /\ c.all_sys <= F1TableLimit
               /\ c.correct_sys <= c.correct_gt /\ c.correct_gt <= F1TableLimit
       THEN (IF counters \in F1UlpAbove THEN 1
             ELSE IF counters \in F1UlpBelow THEN -1
             ELSE IF counters \in F1TwoUlpAbove THEN 2
             ELSE IF counters \in F1TwoUlpBelow THEN -2
             ELSE 0)
       ELSE F1Rounding(c)

\* F1Of without the factor 2 of f_1.
F1OfHalved(c) ==
    LET precision == IF c.all_sys = 0 THEN RatOne ELSE Rat(c.correct_sys, c.all_sys)
        recall == IF c.correct_gt = 0 THEN RatZero ELSE Rat(c.correct_sys, c.correct_gt)
        sum == RatAdd(precision, recall)
    IN IF sum # RatZero THEN FloatOf(RatDiv(RatMul(precision, recall), sum), 0)
       ELSE FloatZero

\* Lines 122-125: precision, recall and f_1 of geteval from its counters, as
\* the float the code computes.
F1Of(c) ==
    LET precision == IF c.all_sys = 0 THEN RatOne ELSE Rat(c.correct_sys, c.all_sys)
        recall == IF c.correct_gt = 0 THEN RatZero ELSE Rat(c.correct_sys, c.correct_gt)
        sum == RatAdd(precision, recall)
    IN IF sum # RatZero
       THEN FloatOf(RatDiv(RatMul(RatMul(<<2, 1>>, precision), recall), sum), F1Ulp(c))
       ELSE FloatZero

geteval(devp, data) == F1Of(GetEvalCount(devp, data, 1))

\* ---------------------------------------------------------------- f1_eval

\* The gold label list of one 36-entry label vector.
RECURSIVE LabelScan(_, _)
LabelScan(label_id, i) ==
    IF i >= LabelWidth THEN <<>>
    ELSE (IF label_id[i + 1] = 1 THEN <<i>> ELSE <<>>) \o LabelScan(label_id, i + 1)

\* LabelOf without the fallback to [36].
LabelOfNoFallback(label_id) == LabelScan(label_id, 0)

\* Lines 133-141: the gold label list, [36] when no class is marked.
LabelOf(label_id) ==
    LET label == LabelScan(label_id, 0)
    IN IF Len(label) = 0 THEN <<NoRelation>> ELSE label

\* T2 / 100.0 for the loop index T2 = k, in units of 1/ProbScale.
ThresholdOf(k) == k * (ProbScale \div 100)

\* Line 147: devp for each of the thresholds, devp at index k + 1 for T2 = k/100.
PredictionsAt(probs) == [k \in 1..NumThresholds |-> getpred(probs, T1Default, ThresholdOf(k - 1))]

\* Line 148: f_1 for each of the thresholds.
F1At(devps, lab) == [k \in 1..NumThresholds |-> geteval(devps[k], lab)]

\* SearchFrom with >= for >: a later threshold with an equal f_1 replaces the best.
RECURSIVE SearchFromLast(_, _, _, _)
SearchFromLast(f1s, k, bf, bt) ==
    IF k >= NumThresholds THEN [bestf_1 |-> bf, bestT2 |-> bt]
    ELSE IF ~FloatGt(bf, f1s[k + 1])
         THEN SearchFromLast(f1s, k + 1, f1s[k + 1], k)
         ELSE SearchFromLast(f1s, k + 1, bf, bt)

\* Lines 145-153: the loop over T2 in range(51) from threshold k on, with the
\* best so far; f1s[k + 1] is the f_1 of threshold k.
RECURSIVE SearchFrom(_, _, _, _)
SearchFrom(f1s, k, bf, bt) ==
    IF k >= NumThresholds THEN [bestf_1 |-> bf, bestT2 |-> bt]
    ELSE IF FloatGt(f1s[k + 1], bf)
         THEN SearchFrom(f1s, k + 1, f1s[k + 1], k)
         ELSE SearchFrom(f1s, k + 1, bf, bt)

\* ------------------------------------------------------------ SpecF1

\* The label vector that marks exactly the classes of g.
LabelVector(g) == [i \in 1..LabelWidth |-> IF (i - 1) \in g THEN 1 ELSE 0]

LogitRows == [1..NumLabels -> LogitVals]

LabelVectors == {LabelVector(g) : g \in SUBSET GoldClasses}

InitF1 ==
    /\ \E n \in 0..MaxExamples :
          /\ logits \in [1..n -> LogitRows]
          /\ label_id_lst \in [1..n -> LabelVectors]
    /\ f1pc = "start"
    /\ labels = <<>>
    /\ devp_at = <<>>
    /\ f1_at = <<>>
    /\ bestf_1 = FloatZero
    /\ bestT2 = 0
    /\ perfect_f1 = FloatZero
    /\ IdleBridge
    /\ IdleCollate
    /\ IdleTrain
    /\ IdleScript

\* Lines 130-143: the gold label lists.
BuildLabels ==
    /\ f1pc = "start"
    /\ labels' = [idx \in 1..Len(label_id_lst) |-> LabelOf(label_id_lst[idx])]
    /\ f1pc' = "labelled"
    /\ UNCHANGED <<logits, label_id_lst, devp_at, f1_at, bestf_1, bestT2, perfect_f1>>
    /\ UNCHANGED <<brvars, colvars, trvars, scvars>>

\* Lines 127-128 and 145-153: the sigmoid and the search over the 51 thresholds.
ThresholdSearch ==
    /\ f1pc = "labelled"
    /\ devp_at' = PredictionsAt(Probabilities(logits))
    /\ f1_at' = F1At(devp_at', labels)
    /\ LET found == SearchFrom(f1_at', 0, FloatZero, 0)
       IN /\ bestf_1' = found.bestf_1
          /\ bestT2' = found.bestT2
    /\ f1pc' = "searched"
    /\ UNCHANGED <<logits, label_id_lst, labels, perfect_f1>>
    /\ UNCHANGED <<brvars, colvars, trvars, scvars>>

\* geteval on a synthetic perfect prediction: the predictions are the gold lists.
PerfectEval ==
    /\ f1pc = "labelled"
    /\ perfect_f1' = geteval(labels, labels)
    /\ f1pc' = "perfect"
    /\ UNCHANGED <<logits, label_id_lst, labels, devp_at, f1_at, bestf_1, bestT2>>
    /\ UNCHANGED <<brvars, colvars, trvars, scvars>>

NextF1 == BuildLabels \/ ThresholdSearch \/ PerfectEval

SpecF1 == InitF1 /\ [][NextF1]_vars

\* ------------------------------------------------- properties of SpecF1

SeqToSet(s) == {s[n] : n \in 1..Len(s)}

\* A list without repetitions whose entries are exactly the set S.
ListsExactly(s, S) == SeqToSet(s) = S /\ Len(s) = Cardinality(S)

RECURSIVE SumTo(_, _)
SumTo(f, n) == IF n = 0 THEN 0 ELSE f[n] + SumTo(f, n - 1)

\* The classes of a probability row (class j at position j + 1) above threshold t.
ClassesAbove(row, t) == {j \in 0..(Len(row) - 1) : row[j + 1] > t}

\* The highest score of a row, and the lowest class that has it.
TopScore(row) == CHOOSE m \in SeqToSet(row) : \A n \in 1..Len(row) : row[n] <= m

TopClass(row) ==
    CHOOSE j \in 0..(Len(row) - 1) :
        /\ row[j + 1] = TopScore(row)
        /\ \A h \in 0..(j - 1) : row[h + 1] # TopScore(row)

\* The prediction rule as the specification words it.
RuleHolds(pred, row, t2) ==
    IF ClassesAbove(row, T1Default) # {}
    THEN ListsExactly(pred, ClassesAbove(row, T1Default))
    ELSE IF TopScore(row) > t2
         THEN pred = <<TopClass(row)>>
         ELSE pred = <<NoRelation>>

\* C1: for every example and every threshold T2 = k/100, k in 0..50, getpred
\* gives exactly the classes above T1 = 0.5 when there are any, else the single
\* first highest-scoring class when its score exceeds T2, else the single class
\* 36; so every prediction is non-empty and holds 36 only as its sole entry.
C1_GetpredRule ==
    f1pc = "searched" =>
        \A i \in 1..Len(logits) : \A k \in 0..(NumThresholds - 1) :
            LET pred == devp_at[k + 1][i]
                row == [j \in 1..Len(logits[i]) |-> Sigmoid(logits[i][j])]
            IN /\ RuleHolds(pred, row, ThresholdOf(k))
               /\ Len(pred) >= 1
               /\ (NoRelation \in SeqToSet(pred) => pred = <<NoRelation>>)

\* One run of the search shows all three branches of the rule: several classes
\* above T1, a tie for the highest score settled for the lower class, and 36.
C1_Witness ==
    /\ f1pc = "searched"
    /\ \E i \in 1..Len(logits) : Len(devp_at[1][i]) >= 2
    /\ \E i \in 1..Len(logits) :
          /\ logits[i][1] = logits[i][2]
          /\ devp_at[1][i] = <<0>>
          /\ devp_at[NumThresholds][i] = <<NoRelation>>

\* C2: f1_eval returns the highest F1 of the 51 thresholds, and as bestT2 the
\* lowest threshold that attains it (0 when every threshold gives F1 = 0).
C2_BestThreshold ==
    f1pc = "searched" =>
        /\ \A k \in 1..NumThresholds : ~FloatGt(f1_at[k], bestf_1)
        /\ bestT2 \in 0..(NumThresholds - 1)
        /\ f1_at[bestT2 + 1] = bestf_1
        /\ \A k \in 0..(bestT2 - 1) : f1_at[k + 1] # bestf_1
        /\ ((\A k \in 1..NumThresholds : f1_at[k] = FloatZero) => bestT2 = 0 /\ bestf_1 = FloatZero)

\* The best F1 is first attained at a threshold above 0 and attained again later.
C2_Witness ==
    /\ f1pc = "searched"
    /\ bestT2 > 0
    /\ \E k \in (bestT2 + 1)..(NumThresholds - 1) : f1_at[k + 1] = bestf_1
    /\ \E k \in 0..(bestT2 - 1) : FloatGt(f1_at[k + 1], FloatZero)

\* Some gold label list names a relation class.
SomeGoldClass == \E i \in 1..Len(labels) : \E n \in 1..Len(labels[i]) : labels[i][n] # NoRelation

\* C3 as claimed: geteval of predictions identical to the gold lists is 1.0.
C3_PerfectIsOne_Original == f1pc = "perfect" => perfect_f1 = FloatOne

\* C3, amended: geteval of predictions identical to the gold lists is 1.0 when
\* some gold list names a class other than 36, and 0 when none does (every gold
\* list is [36], or there is no example).
C3_PerfectIsOne ==
    f1pc = "perfect" =>
        /\ (SomeGoldClass => perfect_f1 = FloatOne)
        /\ (~SomeGoldClass => perfect_f1 = FloatZero)

\* A perfect prediction over a list that mixes a [36] example with a labelled one.
C3_Witness ==
    /\ f1pc = "perfect"
    /\ perfect_f1 = FloatOne
    /\ \E i \in 1..Len(labels) : labels[i] = <<NoRelation>>
    /\ \E i \in 1..Len(labels) : Len(labels[i]) = 2

\* The classes a label vector marks.
Marked(label_id) == {i \in 0..(LabelWidth - 1) : label_id[i + 1] = 1}

\* C4: an all-zero label vector gets the gold list [36]; any other gets exactly
\* its marked classes, never 36; and geteval counts 36 neither as a gold
\* positive nor as a system positive.
C4_NoRelationFallback ==
    /\ f1pc # "start" =>
          /\ Len(labels) = Len(label_id_lst)
          /\ \A idx \in 1..Len(labels) :
                IF Marked(label_id_lst[idx]) = {}
                THEN labels[idx] = <<NoRelation>>
                ELSE ListsExactly(labels[idx], Marked(label_id_lst[idx]))
    /\ f1pc = "searched" =>
          \A k \in 1..NumThresholds :
              LET c == GetEvalCount(devp_at[k], labels, 1)
              IN /\ c.correct_gt =
                       SumTo([i \in 1..Len(labels) |-> Cardinality(Marked(label_id_lst[i]))],
                             Len(labels))
                 /\ c.all_sys =
                       SumTo([i \in 1..Len(labels) |->
                                 Cardinality(SeqToSet(devp_at[k][i]) \ {NoRelation})],
                             Len(labels))

\* An all-zero label vector beside a marked one, with 36 predicted for the marked.
C4_Witness ==
    /\ f1pc = "searched"
    /\ \E i \in 1..Len(labels) : labels[i] = <<NoRelation>> /\ devp_at[1][i] # <<NoRelation>>
    /\ \E i \in 1..Len(labels) :
          labels[i] # <<NoRelation>> /\ devp_at[NumThresholds][i] = <<NoRelation>>

\* ------------------------------------------------------------ SpecBridge

\* The lists of at most MaxParams parameters with pairwise different names.
NamedParams(datas, grads) ==
    UNION {{p \in [1..n -> [name : ParamNames, dtype : {"float32"}, data : datas, grad : grads]] :
               \A i, j \in 1..n : i # j => p[i].name # p[j].name} : n \in 0..MaxParams}

InitBridge ==
    /\ br_opti \in NamedParams({Num(<<7, 1>>)}, {None})
    /\ br_model \in NamedParams({Num(<<3, 1>>)}, {Num(<<1, 1>>), NaN})
    /\ br_pc = "start"
    /\ br_call = "none"
    /\ br_is_nan = FALSE
    /\ IdleF1
    /\ IdleCollate
    /\ IdleTrain
    /\ IdleScript

\* A call of copy_optimizer_params_to_model(named_params_model, named_params_optimizer).
CallCopy ==
    /\ br_pc = "start"
    /\ LET res == copy_optimizer_params_to_model(br_model, br_opti)
       IN /\ br_model' = res.model
          /\ br_pc' = IF res.raised THEN "raised" ELSE "returned"
    /\ br_call' = "copy"
    /\ UNCHANGED <<br_opti, br_is_nan>>
    /\ UNCHANGED <<f1vars, colvars, trvars, scvars>>

\* A call of set_optimizer_params_grad(named_params_optimizer, named_params_model, test_nan).
CallSetGrad ==
    /\ br_pc = "start"
    /\ \E test_nan \in BOOLEAN :
          LET res == set_optimizer_params_grad(br_opti, br_model, test_nan)
          IN /\ br_opti' = res.opti
             /\ br_pc' = IF res.raised THEN "raised" ELSE "returned"
             /\ br_is_nan' = IF res.raised THEN FALSE ELSE res.is_nan
    /\ br_call' = "grad"
    /\ UNCHANGED br_model
    /\ UNCHANGED <<f1vars, colvars, trvars, scvars>>

NextBridge == CallCopy \/ CallSetGrad

SpecBridge == InitBridge /\ [][NextBridge]_vars

\* ---------------------------------------------- properties of SpecBridge

NamesOf(params) == [i \in 1..Len(params) |-> params[i].name]

\* Two names differ at a position that both lists have.
NamesDifferInZip(opti, model) ==
    \E i \in 1..ZipLen(opti, model) : opti[i].name # model[i].name

\* C5 as claimed: whenever the two name sequences are not identical, either
\* utility raises ValueError.
C5_RaisesOnMismatch_Original ==
    (br_pc \in {"returned", "raised"} /\ NamesOf(br_opti) # NamesOf(br_model)) => br_pc = "raised"

\* C5, amended: either utility raises ValueError exactly when two names differ at
\* a position that both sequences have; when one name sequence is a proper
\* prefix of the other, both return normally after the common prefix.
C5_RaisesOnMismatch ==
    br_pc \in {"returned", "raised"} =>
        /\ br_pc = "raised" <=> NamesDifferInZip(br_opti, br_model)
        /\ (NamesOf(br_opti) = NamesOf(br_model) => br_pc = "returned")

\* A utility has raised on two lists of the same length that hold the same
\* names in a different order.
C5_Witness ==
    /\ br_pc = "raised"
    /\ Len(br_opti) = Len(br_model)
    /\ Len(br_opti) >= 2
    /\ {br_opti[i].name : i \in 1..Len(br_opti)} = {br_model[i].name : i \in 1..Len(br_model)}

\* ----------------------------------------------------------- SpecCollate

\* A sample with the token ids ids.  Its other per-token fields give every
\* position a value of its own, so that each kept or dropped entry of each
\* field can be told from the others; its label marks one class.
SampleOf(r, ids) ==
    [input_ids |-> ids,
     input_len |-> 10 * r + Len(ids),
     input_mask |-> [c \in 1..Len(ids) |-> 100 * r + 10 + c],
     segment_ids |-> [c \in 1..Len(ids) |-> 100 * r + 20 + c],
     e1_mask |-> [c \in 1..Len(ids) |-> 100 * r + 30 + c],
     e2_mask |-> [c \in 1..Len(ids) |-> 100 * r + 40 + c],
     label_id |-> [i \in 1..LabelWidth |-> IF i = r THEN 1 ELSE 0]]

InitCollate ==
    /\ pad_token_id \in PadTokenIds
    /\ \E n \in 1..MaxBatch : \E len \in 0..MaxSeqLen :
          \E ids \in [1..n -> [1..len -> TokenIds]] :
              samples = [r \in 1..n |-> SampleOf(r, ids[r])]
    /\ col_pc = "start"
    /\ batch = <<>>
    /\ IdleF1
    /\ IdleBridge
    /\ IdleTrain
    /\ IdleScript

\* The DataLoader's call of collate_fn on one batch of samples.
Collate ==
    /\ col_pc = "start"
    /\ batch' = datset_collate_fn(samples, pad_token_id)
    /\ col_pc' = "collated"
    /\ UNCHANGED <<pad_token_id, samples>>
    /\ UNCHANGED <<f1vars, brvars, trvars, scvars>>

NextCollate == Collate

SpecCollate == InitCollate /\ [][NextCollate]_vars

\* --------------------------------------------- properties of SpecCollate

\* The columns at which some sample of the batch holds a token that is not pad.
NonPadColumns ==
    {c \in 1..Len(samples[1].input_ids) :
        \E r \in 1..Len(samples) : samples[r].input_ids[c] # pad_token_id}

\* out is the row in with exactly the columns of K, in their original order.
IsRestriction(out, in, K) ==
    /\ Len(out) = Cardinality(K)
    /\ \A c \in K : out[Cardinality({d \in K : d < c}) + 1] = in[c]

\* C6: datset_collate_fn drops a column iff input_ids holds the pad token there
\* in every row; the kept columns keep their order and values; the same columns
\* are kept of input_mask, segment_ids, e1_mask and e2_mask; input_lens and
\* label_ids are returned unchanged.
C6_CollateKeepsNonPad ==
    col_pc = "collated" =>
        /\ \A r \in 1..Len(samples) :
              /\ IsRestriction(batch.input_ids[r], samples[r].input_ids, NonPadColumns)
              /\ IsRestriction(batch.input_mask[r], samples[r].input_mask, NonPadColumns)
              /\ IsRestriction(batch.segment_ids[r], samples[r].segment_ids, NonPadColumns)
              /\ IsRestriction(batch.e1_mask[r], samples[r].e1_mask, NonPadColumns)
              /\ IsRestriction(batch.e2_mask[r], samples[r].e2_mask, NonPadColumns)
              /\ batch.input_lens[r] = samples[r].input_len
              /\ batch.label_ids[r] = samples[r].label_id
        /\ Len(batch.input_ids) = Len(samples)
        /\ Len(batch.input_lens) = Len(samples)
        /\ Len(batch.label_ids) = Len(samples)

\* A batch of two samples in which a column that is all padding lies before a
\* column where only one sample holds a token: the first is dropped, the second
\* kept with the other sample's pad in it.
C6_Witness ==
    /\ col_pc = "collated"
    /\ Len(samples) = 2
    /\ Len(samples[1].input_ids) = 2
    /\ samples[1].input_ids[1] = pad_token_id /\ samples[2].input_ids[1] = pad_token_id
    /\ samples[1].input_ids[2] = pad_token_id /\ samples[2].input_ids[2] # pad_token_id
    /\ batch.input_ids = <<<<pad_token_id>>, <<samples[2].input_ids[2]>>>>

\* ------------------------------------------------------------- train()

\* Sums, scalings and differences of tensors; NaN spreads, and a gradient that
\* does not exist yet is replaced by the first one accumulated into it.
TAdd(a, b) ==
    IF a.kind = "none" THEN b
    ELSE IF IsNaN(a) \/ IsNaN(b) THEN NaN
    ELSE IF a.kind = "inf" THEN (IF b.kind = "inf" /\ b.val # a.val THEN NaN ELSE a)
    ELSE IF b.kind = "inf" THEN b
    ELSE Num(RatAdd(a.val, b.val))

TSub(a, b) ==
    IF IsNaN(a) \/ IsNaN(b) THEN NaN
    ELSE IF a.kind = "inf" THEN (IF b.kind = "inf" /\ b.val = a.val THEN NaN ELSE a)
    ELSE IF b.kind = "inf" THEN Inf(-b.val[1])
    ELSE Num(RatSub(a.val, b.val))

\* The scalars r of the model are positive.
TMul(a, r) == IF a.kind = "num" THEN Num(RatMul(a.val, r)) ELSE a

TDiv(a, r) == IF a.kind = "num" THEN Num(RatDiv(a.val, r)) ELSE a

\* The names of the model's parameters, in the order of named_parameters().
ModelParamNames == <<"weight", "bias">>

\* The dtype of the model's parameters: model.half() under fp16.
DeviceDtype(half) == IF half THEN "float16" ELSE "float32"

\* The weights from_pretrained gives parameter i, and those of the model.pt that
\* a resumed run loads.
Pretrained(i) == Num(<<i, 1>>)

Checkpoint(i) == Num(<<10 + i, 1>>)

\* The learning rate of the optimizer, and the loss scale the run starts with.
LearningRate == <<1, 3>>

InitLossScale == <<2, 1>>

\* Lines 420-455: the model built from the pretrained weights, halved under fp16.
BuildModel(half) ==
    [i \in 1..Len(ModelParamNames) |->
        [name |-> ModelParamNames[i],
         dtype |-> DeviceDtype(half),
         data |-> CastTo(DeviceDtype(half), Pretrained(i)),
         grad |-> None]]

\* Lines 481-492: the parameters handed to the optimizer, a float32 copy on the
\* CPU under fp16, a copy under optimize_on_cpu, else the model's own.
BuildParamOptimizer(model, half, on_cpu) ==
    IF half
    THEN [i \in 1..Len(model) |->
            [model[i] EXCEPT !.dtype = "float32", !.data = CastTo("float32", model[i].data)]]
    ELSE model

\* Lines 511-512: model.load_state_dict(torch.load(model.pt)).
LoadStateDict(model, state_dict) ==
    [i \in 1..Len(model) |-> [model[i] EXCEPT !.data = CastTo(model[i].dtype, state_dict[i])]]

\* Whether the optimizer holds its own copy of the parameters.
Bridged == fp16 \/ optimize_on_cpu

\* Lines 259-266: the gradient one backward pass adds to parameter i: that of
\* the loss, times loss_scale under fp16, divided by the accumulation count;
\* NaN for the parameter nan_at.
BatchGrad(i, nan_at, half, scale, accum) ==
    IF i = nan_at THEN NaN
    ELSE LET scaled == IF half /\ scale # <<1, 1>> THEN TMul(Num(<<i, 1>>), scale)
                       ELSE Num(<<i, 1>>)
         IN IF accum > 1 THEN TDiv(scaled, <<accum, 1>>) ELSE scaled

\* loss.backward(): every parameter's gradient grows by that of the batch.
Backward(model, nan_at, half, scale, accum) ==
    [i \in 1..Len(model) |->
        [model[i] EXCEPT !.grad = TAdd(model[i].grad, BatchGrad(i, nan_at, half, scale, accum))]]

\* Lines 272-275: param.grad.data = param.grad.data / args.loss_scale.
ScaleDown(model, half, scale) ==
    IF half /\ scale # <<1, 1>>
    THEN [i \in 1..Len(model) |-> [model[i] EXCEPT !.grad = TDiv(model[i].grad, scale)]]
    ELSE model

\* Lines 282 and 288: model.zero_grad().  run.py passes no argument and
\* nothing fixes the version of torch: where the default of set_to_none is
\* False every gradient that exists is filled with zeros, where it is True
\* (torch 2.0 and later) every gradient becomes None.
ZeroGrad(model, to_none) ==
    [i \in 1..Len(model) |->
        [model[i] EXCEPT !.grad = IF to_none \/ @.kind = "none" THEN None
                                  ELSE Num(<<0, 1>>)]]

\* optimizer.step(): every parameter moves against its gradient.
OptimizerStep(params) ==
    [i \in 1..Len(params) |->
        [params[i] EXCEPT !.data = TSub(params[i].data, TMul(params[i].grad, LearningRate))]]

DataOf(params) == [i \in 1..Len(params) |-> params[i].data]

GradOf(params) == [i \in 1..Len(params) |-> params[i].grad]

\* AtBoundary with every batch a boundary.
AtBoundaryEveryBatch(batch_index, accum) == TRUE

\* Line 270: (step + 1) % args.gradient_accumulation_steps == 0.
AtBoundary(batch_index, accum) == (batch_index + 1) % accum = 0

\* The record of an iteration of train() that has not reached its boundary.
NoBoundary(kind) ==
    [kind |-> kind, nan |-> FALSE, events |-> <<>>, outcome |-> "none",
     data |-> <<>>, shadow |-> <<>>, gs |-> 0, ls |-> <<0, 1>>,
     model_grads |-> <<>>, step_grads |-> <<>>, batches |-> <<>>]

\* ------------------------------------------------------------- SpecTrain

InitTrain ==
    /\ fp16 \in BOOLEAN
    /\ optimize_on_cpu \in BOOLEAN
    /\ resume \in BOOLEAN
    /\ gradient_accumulation_steps \in 1..MaxAccum
    /\ loss_scale = InitLossScale
    /\ LET built == BuildModel(fp16)
           model_pt == [i \in 1..Len(built) |-> Checkpoint(i)]
       IN /\ param_optimizer =
                IF resume /\ ~(fp16 \/ optimize_on_cpu)
                THEN LoadStateDict(built, model_pt)
                ELSE BuildParamOptimizer(built, fp16, optimize_on_cpu)
          /\ model_params = IF resume THEN LoadStateDict(built, model_pt) ELSE built
    /\ global_step = 0
    /\ epoch_idx = 0
    /\ tr_pc = "call"
    /\ step = 0
    /\ tr_global_step = 0
    /\ is_nan = FALSE
    /\ train_result = <<>>
    /\ last = NoBoundary("none")
    /\ tally = [stepped |-> {}, zeroed |-> {}, window |-> <<>>]
    /\ set_to_none \in BOOLEAN
    /\ IdleF1
    /\ IdleBridge
    /\ IdleCollate
    /\ IdleScript

\* Lines 534-537 and 223-226: the epoch loop calls train(model, ..., global_step, epoch).
CallTrain ==
    /\ tr_pc = "call"
    /\ tr_global_step' = global_step
    /\ step' = 0
    /\ tr_pc' = "batch"
    /\ last' = NoBoundary("none")
    /\ tally' = [tally EXCEPT !.stepped = {}, !.zeroed = {}]
    /\ UNCHANGED set_to_none
    /\ UNCHANGED <<fp16, optimize_on_cpu, resume, gradient_accumulation_steps, loss_scale,
                   model_params, param_optimizer, global_step, epoch_idx, is_nan, train_result>>
    /\ UNCHANGED <<f1vars, brvars, colvars, scvars>>

\* Lines 228-270: the forward and backward pass of one batch, up to the test of
\* the accumulation boundary.
ForwardBackward ==
    /\ tr_pc = "batch"
    /\ \E nan_at \in 0..Len(ModelParamNames) :
          /\ model_params' = Backward(model_params, nan_at, fp16, loss_scale,
                                      gradient_accumulation_steps)
          /\ param_optimizer' = IF Bridged THEN param_optimizer ELSE model_params'
    /\ tally' = [tally EXCEPT !.window = Append(@, <<epoch_idx + 1, step + 1>>)]
    /\ IF AtBoundary(step, gradient_accumulation_steps)
       THEN /\ tr_pc' = "boundary"
            /\ last' = [NoBoundary("boundary") EXCEPT
                           !.batches = tally'.window,
                           !.data = DataOf(model_params),
                           !.shadow = DataOf(param_optimizer),
                           !.gs = tr_global_step,
                           !.ls = loss_scale]
       ELSE /\ tr_pc' = "next"
            /\ last' = NoBoundary("accumulate")
    /\ UNCHANGED set_to_none
    /\ UNCHANGED <<fp16, optimize_on_cpu, resume, gradient_accumulation_steps, loss_scale,
                   global_step, epoch_idx, step, tr_global_step, is_nan, train_result>>
    /\ UNCHANGED <<f1vars, brvars, colvars, scvars>>

\* Lines 271-279: under fp16 or optimize_on_cpu, the gradients are scaled down
\* and copied to the optimizer's parameters, with the test for NaN.
ScaleAndCopyGrads ==
    /\ tr_pc = "boundary"
    /\ Bridged
    /\ model_params' = ScaleDown(model_params, fp16, loss_scale)
    /\ LET res == set_optimizer_params_grad(param_optimizer, model_params', TRUE)
       IN /\ param_optimizer' = res.opti
          /\ is_nan' = res.is_nan
          /\ tr_pc' = IF res.raised THEN "raised" ELSE IF res.is_nan THEN "nan" ELSE "step"
    /\ last' = [last EXCEPT
                   !.nan = \E i \in 1..Len(model_params') : IsNaN(model_params'[i].grad),
                   !.model_grads = GradOf(model_params'),
                   !.events = Append(@, "copy_grads")]
    /\ UNCHANGED set_to_none
    /\ UNCHANGED <<fp16, optimize_on_cpu, resume, gradient_accumulation_steps, loss_scale,
                   global_step, epoch_idx, step, tr_global_step, train_result, tally>>
    /\ UNCHANGED <<f1vars, brvars, colvars, scvars>>

\* Lines 279-283: NaN in the gradients: the loss scale is halved, the gradients
\* are zeroed and the loop continues.
SkipNaN ==
    /\ tr_pc = "nan"
    /\ loss_scale' = RatDiv(loss_scale, <<2, 1>>)
    /\ model_params' = ZeroGrad(model_params, set_to_none)
    /\ tr_pc' = "next"
    /\ last' = [last EXCEPT !.outcome = "skipped"]
    /\ tally' = [tally EXCEPT !.zeroed = @ \cup {step + 1}, !.window = <<>>]
    /\ UNCHANGED set_to_none
    /\ UNCHANGED <<fp16, optimize_on_cpu, resume, gradient_accumulation_steps,
                   param_optimizer, global_step, epoch_idx, step, tr_global_step, is_nan,
                   train_result>>
    /\ UNCHANGED <<f1vars, brvars, colvars, scvars>>

\* Line 284: optimizer.step() on the optimizer's copy.
StepOnCopy ==
    /\ tr_pc = "step"
    /\ param_optimizer' = OptimizerStep(param_optimizer)
    /\ tr_pc' = "copy_back"
    /\ last' = [last EXCEPT !.step_grads = GradOf(param_optimizer),
                            !.events = Append(@, "step")]
    /\ tally' = [tally EXCEPT !.stepped = @ \cup {step + 1}]
    /\ UNCHANGED set_to_none
    /\ UNCHANGED <<fp16, optimize_on_cpu, resume, gradient_accumulation_steps, loss_scale,
                   model_params, global_step, epoch_idx, step, tr_global_step, is_nan,
                   train_result>>
    /\ UNCHANGED <<f1vars, brvars, colvars, scvars>>

\* Lines 285 and 288-289: the copy back to the model, zero_grad, global_step += 1.
CopyBack ==
    /\ tr_pc = "copy_back"
    /\ LET res == copy_optimizer_params_to_model(model_params, param_optimizer)
       IN /\ model_params' = IF res.raised THEN res.model ELSE ZeroGrad(res.model, set_to_none)
          /\ tr_pc' = IF res.raised THEN "raised" ELSE "next"
          /\ tr_global_step' = IF res.raised THEN tr_global_step ELSE tr_global_step + 1
          /\ tally' = IF res.raised THEN tally
                      ELSE [tally EXCEPT !.zeroed = @ \cup {step + 1}, !.window = <<>>]
    /\ last' = [last EXCEPT !.events = Append(@, "copy_back"), !.outcome = "applied"]
    /\ UNCHANGED set_to_none
    /\ UNCHANGED <<fp16, optimize_on_cpu, resume, gradient_accumulation_steps, loss_scale,
                   param_optimizer, global_step, epoch_idx, step, is_nan, train_result>>
    /\ UNCHANGED <<f1vars, brvars, colvars, scvars>>

\* Lines 286-289: without a copy, optimizer.step() on the model's own
\* parameters, zero_grad, global_step += 1.
StepOnModel ==
    /\ tr_pc = "boundary"
    /\ ~Bridged
    /\ model_params' = ZeroGrad(OptimizerStep(model_params), set_to_none)
    /\ param_optimizer' = model_params'
    /\ tr_global_step' = tr_global_step + 1
    /\ tr_pc' = "next"
    /\ last' = [last EXCEPT
                   !.nan = \E i \in 1..Len(model_params) : IsNaN(model_params[i].grad),
                   !.model_grads = GradOf(model_params),
                   !.step_grads = GradOf(model_params),
                   !.events = Append(@, "step"),
                   !.outcome = "applied"]
    /\ tally' = [tally EXCEPT !.stepped = @ \cup {step + 1},
                              !.zeroed = @ \cup {step + 1},
                              !.window = <<>>]
    /\ UNCHANGED set_to_none
    /\ UNCHANGED <<fp16, optimize_on_cpu, resume, gradient_accumulation_steps, loss_scale,
                   global_step, epoch_idx, step, is_nan, train_result>>
    /\ UNCHANGED <<f1vars, brvars, colvars, scvars>>

\* Line 227: the loop over the dataloader takes the next batch or ends.
NextBatch ==
    /\ tr_pc = "next"
    /\ IF step + 1 < NumBatches
       THEN /\ step' = step + 1
            /\ tr_pc' = "batch"
       ELSE /\ step' = step
            /\ tr_pc' = "return"
    /\ UNCHANGED set_to_none
    /\ UNCHANGED <<fp16, optimize_on_cpu, resume, gradient_accumulation_steps, loss_scale,
                   model_params, param_optimizer, global_step, epoch_idx, tr_global_step,
                   is_nan, train_result, last, tally>>
    /\ UNCHANGED <<f1vars, brvars, colvars, scvars>>

\* Lines 291-292 and 534: train() returns its result, and the epoch loop goes on.
ReturnTrain ==
    /\ tr_pc = "return"
    /\ train_result' = [global_step |-> tr_global_step]
    /\ epoch_idx' = epoch_idx + 1
    /\ tr_pc' = IF epoch_idx + 1 < NumEpochs THEN "call" ELSE "done"
    /\ UNCHANGED set_to_none
    /\ UNCHANGED <<fp16, optimize_on_cpu, resume, gradient_accumulation_steps, loss_scale,
                   model_params, param_optimizer, global_step, step, tr_global_step,
                   is_nan, last, tally>>
    /\ UNCHANGED <<f1vars, brvars, colvars, scvars>>

NextTrain ==
    \/ CallTrain
    \/ ForwardBackward
    \/ ScaleAndCopyGrads
    \/ SkipNaN
    \/ StepOnCopy
    \/ CopyBack
    \/ StepOnModel
    \/ NextBatch
    \/ ReturnTrain

SpecTrain == InitTrain /\ [][NextTrain]_vars

\* ------------------------------------------------ properties of SpecTrain

\* An iteration of train() has just ended, and it was an accumulation boundary.
AfterBoundary == tr_pc = "next" /\ last.kind = "boundary"

\* The gradients of the model are as model.zero_grad() leaves them: filled with
\* zeros, or None on a torch whose zero_grad sets them to None.
AllGradsZero ==
    \A i \in 1..Len(model_params) :
        model_params[i].grad = IF set_to_none THEN None ELSE Num(<<0, 1>>)

\* C7: under fp16 (and likewise under optimize_on_cpu), an accumulation boundary
\* at which some gradient of the model holds NaN halves args.loss_scale, does
\* not call optimizer.step, leaves the model's parameters and global_step as
\* they were, zeroes the gradients (model.zero_grad() has run: every gradient
\* is filled with zeros, or is None on a torch whose zero_grad sets it to None)
\* and goes on to the next batch; nothing raises.
C7_NaNSkipsStep ==
    /\ tr_pc # "raised"
    /\ (AfterBoundary /\ Bridged /\ last.nan) =>
          /\ last.outcome = "skipped"
          /\ loss_scale = RatDiv(last.ls, <<2, 1>>)
          /\ \A n \in 1..Len(last.events) : last.events[n] # "step"
          /\ DataOf(model_params) = last.data
          /\ tr_global_step = last.gs
          /\ AllGradsZero

\* Under fp16 with two batches a step, a second boundary with NaN (in the first
\* parameter only) has brought the loss scale from 2 to 1/2, on a torch whose
\* zero_grad sets the gradients to None.
C7_Witness ==
    /\ AfterBoundary
    /\ fp16
    /\ set_to_none
    /\ \A i \in 1..Len(model_params) : model_params[i].grad = None
    /\ gradient_accumulation_steps = 2
    /\ last.nan
    /\ ~IsNaN(last.model_grads[Len(last.model_grads)])
    /\ last.ls = <<1, 1>>
    /\ loss_scale = <<1, 2>>

SameNames ==
    /\ Len(model_params) = Len(param_optimizer)
    /\ \A i \in 1..Len(model_params) : model_params[i].name = param_optimizer[i].name

\* C8 as claimed: under fp16 or optimize_on_cpu, after every accumulation
\* boundary each parameter of the model equals the optimizer's copy of it.
C8_ModelEqualsCopy_Original ==
    (AfterBoundary /\ Bridged) =>
        /\ SameNames
        /\ \A i \in 1..Len(model_params) : model_params[i].data = param_optimizer[i].data

\* C8, amended: under fp16 or optimize_on_cpu an applied update copies the
\* gradients of the model to the optimizer's copy, steps the optimizer on the
\* copy and copies the values back, in this order, so the optimizer steps on
\* the gradients copied at that boundary; after an applied update each
\* parameter of the model equals the optimizer's copy of it converted to the
\* model's dtype (equal to it when the model is float32, rounded to float16
\* under fp16); a boundary skipped for NaN leaves both as they were.
C8_ModelFollowsCopy ==
    /\ (tr_pc = "copy_back" =>
          /\ last.events = <<"copy_grads", "step">>
          /\ last.step_grads = last.model_grads)
    /\ (AfterBoundary /\ Bridged) =>
          /\ SameNames
          /\ (last.outcome = "applied" =>
                /\ last.events = <<"copy_grads", "step", "copy_back">>
                /\ last.step_grads = last.model_grads
                /\ \A i \in 1..Len(model_params) :
                      /\ model_params[i].data =
                            CastTo(model_params[i].dtype, param_optimizer[i].data)
                      /\ (~fp16 => model_params[i].data = param_optimizer[i].data))
          /\ (last.outcome = "skipped" =>
                /\ last.events = <<"copy_grads">>
                /\ DataOf(model_params) = last.data
                /\ DataOf(param_optimizer) = last.shadow)
          /\ last.outcome \in {"applied", "skipped"}

\* Under fp16 an applied update has left a parameter of the model different
\* from the float32 copy it was rounded from.
C8_Witness ==
    /\ AfterBoundary
    /\ fp16
    /\ last.outcome = "applied"
    /\ last.events = <<"copy_grads", "step", "copy_back">>
    /\ \E i \in 1..Len(model_params) : model_params[i].data # param_optimizer[i].data
    /\ DataOf(model_params) # last.data

\* ------------------------------------------------------------ the script

\* Lines 375-380: the test of gradient_accumulation_steps.
AccumulationInvalid(accum) == accum < 1

\* Lines 391-392: the test of the two flags.
NoTaskFlag(train_flag, eval_flag) == ~train_flag /\ ~eval_flag

\* Lines 394-398: the output directory holds model.pt, and the run would train
\* without resuming.
OutputDirTaken(dir, train_flag, resume_flag) ==
    dir.exists /\ dir.model_pt # <<>> /\ train_flag /\ ~resume_flag

\* Lines 394 and 399-400: os.makedirs unless the directory holds model.pt.
MakeDirs(dir) ==
    IF dir.exists /\ dir.model_pt # <<>> THEN dir ELSE [dir EXCEPT !.exists = TRUE]

\* ShouldSave with > for >=.
ShouldSaveStrict(metric, best) == metric > best

\* Lines 550 and 554: the test that overwrites model_best.pt.
ShouldSave(metric, best) == metric >= best

\* Lines 548-556: the metric the selection reads: F1 under f1eval, else accuracy.
SelectionMetric(use_f1, f1, acc) == IF use_f1 THEN f1 ELSE acc

\* The weights of the model: those from_pretrained gave, those of a model.pt or
\* model_best.pt found in the output directory, those after epoch k of training.
PretrainedWeights == <<"pretrained">>

FoundWeights == <<"found">>

EpochWeights(k) == <<"epoch", k>>

\* Lines 566-584: export_predictions(args, data_type, examples, dataloader)
\* builds the dataset itself when it is handed none, evaluates the model on it
\* and writes the logits; ld and ex are the datasets built and the evaluations
\* exported so far, w the weights of the model.
export_predictions(ld, ex, w, data_type, handed) ==
    [loaded |-> IF handed THEN ld ELSE ld \cup {data_type},
     exported |-> Append(ex, [data_type |-> data_type, weights |-> w])]

\* The states an output directory may be in when the script starts.
OutputDirs ==
    {[exists |-> FALSE, model_pt |-> <<>>, model_best |-> <<>>]} \cup
    [exists : {TRUE}, model_pt : {<<>>, FoundWeights}, model_best : {<<>>, FoundWeights}]

InitScript ==
    /\ do_train \in BOOLEAN
    /\ do_eval \in BOOLEAN
    /\ do_evalc \in BOOLEAN
    /\ f1eval \in BOOLEAN
    /\ num_train_epochs \in 0..NumEpochs
    /\ resume \in BOOLEAN
    /\ gradient_accumulation_steps \in 0..MaxAccum
    /\ output_dir \in OutputDirs
    /\ initial_dir = output_dir
    /\ sc_pc = "configure_logging"
    /\ sc_error = "none"
    /\ loaded = {}
    /\ model_built = FALSE
    /\ weights = <<>>
    /\ best_metric = 0
    /\ sc_epoch = 0
    /\ metrics = <<>>
    /\ saved = <<>>
    /\ exported = <<>>
    /\ fp16 = FALSE
    /\ optimize_on_cpu = FALSE
    /\ loss_scale = <<1, 1>>
    /\ model_params = <<>>
    /\ param_optimizer = <<>>
    /\ global_step = 0
    /\ epoch_idx = 0
    /\ tr_pc = "idle"
    /\ step = 0
    /\ tr_global_step = 0
    /\ is_nan = FALSE
    /\ train_result = <<>>
    /\ last = <<>>
    /\ tally = <<>>
    /\ set_to_none = FALSE
    /\ IdleF1
    /\ IdleBridge
    /\ IdleCollate

\* What no action of the script changes.
ScriptFrame ==
    /\ UNCHANGED <<do_train, do_eval, do_evalc, f1eval, num_train_epochs, initial_dir>>
    /\ UNCHANGED <<f1vars, brvars, colvars, trvars>>

\* Lines 349-355: logging.basicConfig opens runing.log in the output directory,
\* unless the root logger already has a handler, which the imported modules
\* decide; the file cannot be opened in a directory that does not exist.
ConfigureLogging ==
    /\ sc_pc = "configure_logging"
    /\ \E root_has_handler \in BOOLEAN :
          IF ~root_has_handler /\ ~output_dir.exists
          THEN sc_pc' = "error" /\ sc_error' = "FileNotFoundError"
          ELSE sc_pc' = "check_accumulation" /\ sc_error' = sc_error
    /\ UNCHANGED <<output_dir, loaded, model_built, weights, best_metric, sc_epoch,
                   metrics, saved, exported>>
    /\ ScriptFrame

\* Lines 375-380.
CheckAccumulation ==
    /\ sc_pc = "check_accumulation"
    /\ IF AccumulationInvalid(gradient_accumulation_steps)
       THEN sc_pc' = "error" /\ sc_error' = "ValueError"
       ELSE sc_pc' = "check_flags" /\ sc_error' = sc_error
    /\ UNCHANGED <<output_dir, loaded, model_built, weights, best_metric, sc_epoch,
                   metrics, saved, exported>>
    /\ ScriptFrame

\* Lines 391-392.
CheckFlags ==
    /\ sc_pc = "check_flags"
    /\ IF NoTaskFlag(do_train, do_eval)
       THEN sc_pc' = "error" /\ sc_error' = "ValueError"
       ELSE sc_pc' = "check_output_dir" /\ sc_error' = sc_error
    /\ UNCHANGED <<output_dir, loaded, model_built, weights, best_metric, sc_epoch,
                   metrics, saved, exported>>
    /\ ScriptFrame

\* Lines 394-400.
CheckOutputDir ==
    /\ sc_pc = "check_output_dir"
    /\ IF OutputDirTaken(output_dir, do_train, resume)
       THEN sc_pc' = "error" /\ sc_error' = "ValueError" /\ output_dir' = output_dir
       ELSE sc_pc' = "load_train" /\ sc_error' = sc_error /\ output_dir' = MakeDirs(output_dir)
    /\ UNCHANGED <<loaded, model_built, weights, best_metric, sc_epoch, metrics, saved,
                   exported>>
    /\ ScriptFrame

\* Lines 403-415: the training set, under do_train.
LoadTrainSet ==
    /\ sc_pc = "load_train"
    /\ loaded' = IF do_train THEN loaded \cup {"train"} ELSE loaded
    /\ sc_pc' = "build_model"
    /\ UNCHANGED <<output_dir, sc_error, model_built, weights, best_metric, sc_epoch,
                   metrics, saved, exported>>
    /\ ScriptFrame

\* Lines 417-509: the model, the tokenizer and the optimizer.
BuildModelAndOptimizer ==
    /\ sc_pc = "build_model"
    /\ model_built' = TRUE
    /\ weights' = PretrainedWeights
    /\ sc_pc' = "resume"
    /\ UNCHANGED <<output_dir, sc_error, loaded, best_metric, sc_epoch, metrics, saved,
                   exported>>
    /\ ScriptFrame

\* Lines 511-512: a resumed run loads model.pt.
ResumeFromCheckpoint ==
    /\ sc_pc = "resume"
    /\ IF ~resume
       THEN sc_pc' = "load_eval" /\ sc_error' = sc_error /\ weights' = weights
       ELSE IF output_dir.model_pt = <<>>
       THEN sc_pc' = "error" /\ sc_error' = "FileNotFoundError" /\ weights' = weights
       ELSE sc_pc' = "load_eval" /\ sc_error' = sc_error /\ weights' = output_dir.model_pt
    /\ UNCHANGED <<output_dir, loaded, model_built, best_metric, sc_epoch, metrics, saved,
                   exported>>
    /\ ScriptFrame

\* Lines 514-528: the dev and test sets, under do_eval; then best_metric = 0
\* under do_train.
LoadEvalSets ==
    /\ sc_pc = "load_eval"
    /\ loaded' = IF do_eval THEN loaded \cup {"dev", "test"} ELSE loaded
    /\ best_metric' = 0
    /\ sc_pc' = IF do_train THEN "epoch" ELSE "final_load"
    /\ UNCHANGED <<output_dir, sc_error, model_built, weights, sc_epoch, metrics, saved,
                   exported>>
    /\ ScriptFrame

\* Lines 534-540: one epoch of training.
TrainEpoch ==
    /\ sc_pc = "epoch"
    /\ sc_epoch < num_train_epochs
    /\ weights' = EpochWeights(sc_epoch + 1)
    /\ sc_pc' = "evaluate"
    /\ UNCHANGED <<output_dir, sc_error, loaded, model_built, best_metric, sc_epoch,
                   metrics, saved, exported>>
    /\ ScriptFrame

\* Lines 542-556: the evaluation on the dev set, and model_best.pt overwritten
\* when the metric is no worse than the best so far.
EvaluateAndSave ==
    /\ sc_pc = "evaluate"
    /\ IF "dev" \notin loaded
       THEN /\ sc_pc' = "error"
            /\ sc_error' = "NameError"
            /\ UNCHANGED <<output_dir, best_metric, sc_epoch, metrics, saved>>
       ELSE \E eval_accuracy \in MetricVals :
            \E eval_f1 \in (IF f1eval THEN MetricVals ELSE {0}) :
               LET metric == SelectionMetric(f1eval, eval_f1, eval_accuracy)
                   save == ShouldSave(metric, best_metric)
               IN /\ output_dir' = IF save THEN [output_dir EXCEPT !.model_best = weights]
                                   ELSE output_dir
                  /\ best_metric' = IF save THEN metric ELSE best_metric
                  /\ metrics' = Append(metrics, [acc |-> eval_accuracy, f1 |-> eval_f1])
                  /\ saved' = Append(saved, save)
                  /\ sc_epoch' = sc_epoch + 1
                  /\ sc_pc' = "epoch"
                  /\ sc_error' = sc_error
    /\ UNCHANGED <<loaded, model_built, weights, exported>>
    /\ ScriptFrame

\* Lines 558-559: after the last epoch, model_best.pt is loaded and saved as model.pt.
KeepBest ==
    /\ sc_pc = "epoch"
    /\ sc_epoch >= num_train_epochs
    /\ IF output_dir.model_best = <<>>
       THEN /\ sc_pc' = "error"
            /\ sc_error' = "FileNotFoundError"
            /\ UNCHANGED <<weights, output_dir>>
       ELSE /\ weights' = output_dir.model_best
            /\ output_dir' = [output_dir EXCEPT !.model_pt = output_dir.model_best]
            /\ sc_pc' = "final_load"
            /\ sc_error' = sc_error
    /\ UNCHANGED <<loaded, model_built, best_metric, sc_epoch, metrics, saved, exported>>
    /\ ScriptFrame

\* Lines 561-563: model.pt is loaded into the model.
LoadFinal ==
    /\ sc_pc = "final_load"
    /\ IF output_dir.model_pt = <<>>
       THEN sc_pc' = "error" /\ sc_error' = "FileNotFoundError" /\ weights' = weights
       ELSE sc_pc' = "export" /\ sc_error' = sc_error /\ weights' = output_dir.model_pt
    /\ UNCHANGED <<output_dir, loaded, model_built, best_metric, sc_epoch, metrics, saved,
                   exported>>
    /\ ScriptFrame

\* Lines 586-590: under do_eval, export_predictions on the dev and on the test
\* set, with the examples and the dataloader built at lines 514-523.
ExportPredictions ==
    /\ sc_pc = "export"
    /\ IF do_eval
       THEN LET dev == export_predictions(loaded, exported, weights, "dev", TRUE)
                test == export_predictions(dev.loaded, dev.exported, weights, "test", TRUE)
            IN loaded' = test.loaded /\ exported' = test.exported
       ELSE UNCHANGED <<loaded, exported>>
    /\ sc_pc' = "export_c"
    /\ UNCHANGED <<output_dir, sc_error, model_built, weights, best_metric, sc_epoch,
                   metrics, saved>>
    /\ ScriptFrame

\* Lines 592-598: under do_evalc, export_predictions on the devc and on the
\* testc set, which it builds itself.
ExportPredictionsC ==
    /\ sc_pc = "export_c"
    /\ IF do_evalc
       THEN LET devc == export_predictions(loaded, exported, weights, "devc", FALSE)
                testc == export_predictions(devc.loaded, devc.exported, weights, "testc",
                                            FALSE)
            IN loaded' = testc.loaded /\ exported' = testc.exported
       ELSE UNCHANGED <<loaded, exported>>
    /\ sc_pc' = "done"
    /\ UNCHANGED <<output_dir, sc_error, model_built, weights, best_metric, sc_epoch,
                   metrics, saved>>
    /\ ScriptFrame

NextScript ==
    \/ ConfigureLogging
    \/ CheckAccumulation
    \/ CheckFlags
    \/ CheckOutputDir
    \/ LoadTrainSet
    \/ BuildModelAndOptimizer
    \/ ResumeFromCheckpoint
    \/ LoadEvalSets
    \/ TrainEpoch
    \/ EvaluateAndSave
    \/ KeepBest
    \/ LoadFinal
    \/ ExportPredictions
    \/ ExportPredictionsC

SpecScript == InitScript /\ [][NextScript]_vars

\* ------------------------------------------------- properties of SpecScript

\* The three start-up checks have run: one raised, or the script went on.
ChecksDone ==
    \/ sc_error = "ValueError"
    \/ sc_pc \in {"load_train", "build_model"}
    \/ model_built

\* The start-up of the script is over: it has ended in an error or has gone on
\* to load the training set.
StartupOver ==
    sc_pc \notin {"configure_logging", "check_accumulation", "check_flags", "check_output_dir"}

\* The configurations C9 names, read from the arguments and from the output
\* directory as the script found it.
NamedConfiguration ==
    \/ gradient_accumulation_steps < 1
    \/ ~do_train /\ ~do_eval
    \/ initial_dir.exists /\ initial_dir.model_pt # <<>> /\ do_train /\ ~resume

\* The three checks of lines 375-400 by themselves: in a run that reaches them
\* a ValueError is raised exactly in the named configurations, and where none
\* is raised the output directory exists.
ChecksRaiseAsNamed ==
    /\ ChecksDone => (sc_error = "ValueError" <=> NamedConfiguration)
    /\ ChecksDone /\ sc_error # "ValueError" => output_dir.exists

\* C9: a ValueError is raised while no dataset is loaded and no model is built;
\* when the start-up is over, the script has raised ValueError exactly in the
\* named configurations (gradient_accumulation_steps < 1, neither do_train nor
\* do_eval, an output directory holding model.pt with do_train and without
\* resume), and in every other configuration the output directory exists.
C9_StartupValidation ==
    /\ sc_error = "ValueError" => loaded = {} /\ ~model_built
    /\ StartupOver => (sc_error = "ValueError" <=> NamedConfiguration)
    /\ StartupOver /\ ~NamedConfiguration => output_dir.exists

\* The dev metric of epoch k that the selection reads.
MetricOf(k) == IF f1eval THEN metrics[k].f1 ELSE metrics[k].acc

\* The maximum dev metric of the epochs before k, 0 to begin with.
MaxBefore(k) ==
    LET earlier == {0} \cup {MetricOf(j) : j \in 1..(k - 1)}
    IN CHOOSE m \in earlier : \A x \in earlier : m >= x

\* The latest of the first n epochs that attains the maximum over them.
BestEpoch(n) ==
    LET attaining == {k \in 1..n : \A j \in 1..n : MetricOf(k) >= MetricOf(j)}
    IN CHOOSE k \in attaining : \A j \in attaining : k >= j

\* The epoch loop has ended and model.pt has been written.
TrainingEnded == do_train /\ sc_pc \in {"final_load", "export", "export_c", "done"}

\* C10: epoch k overwrites model_best.pt exactly when its dev metric (F1 under
\* f1eval, else accuracy) is at least the maximum of the earlier epochs and 0;
\* after every epoch model_best.pt holds the weights of the latest epoch that
\* attains the running maximum; when training has ended model.pt is a copy of
\* model_best.pt, and the model evaluated afterwards carries those weights.
C10_BestCheckpoint ==
    /\ Len(saved) = Len(metrics)
    /\ \A k \in 1..Len(saved) : saved[k] <=> MetricOf(k) >= MaxBefore(k)
    /\ Len(metrics) >= 1 => output_dir.model_best = EpochWeights(BestEpoch(Len(metrics)))
    /\ TrainingEnded /\ Len(metrics) >= 1 =>
          /\ Len(metrics) = num_train_epochs
          /\ output_dir.model_pt = output_dir.model_best
    /\ do_train /\ sc_pc \in {"export", "export_c", "done"} /\ Len(metrics) >= 1 =>
          /\ weights = EpochWeights(BestEpoch(Len(metrics)))
          /\ \A e \in 1..Len(exported) : exported[e].weights = weights

\* A run whose last epoch was not the best: the model exported is an earlier
\* epoch's, and the last epoch left model_best.pt alone.
C10_Witness ==
    /\ sc_pc = "done"
    /\ Len(metrics) >= 2
    /\ ~saved[Len(saved)]
    /\ BestEpoch(Len(metrics)) < Len(metrics)
    /\ Len(exported) = 2
    /\ exported[1].weights = EpochWeights(BestEpoch(Len(metrics)))
    /\ weights # EpochWeights(Len(metrics))

\* ----------------------------------- more properties of SpecTrain: counting

\* The batches 1..n of an epoch whose 1-based index is a multiple of
\* gradient_accumulation_steps.
BoundaryBatches(n) == {b \in 1..n : b % gradient_accumulation_steps = 0}

\* The place of batch b of epoch e in the run.
PlaceOf(e, b) == (e - 1) * NumBatches + b

\* The batches <<epoch, batch>> of the run from the one after the last multiple
\* of gradient_accumulation_steps before batch b of epoch e up to that batch,
\* across the end of an epoch.
SinceLastBoundary(e, b) ==
    {w \in (1..e) \X (1..NumBatches) :
        /\ PlaceOf(w[1], w[2]) <= PlaceOf(e, b)
        /\ \A v \in (1..e) \X (1..NumBatches) :
              (PlaceOf(w[1], w[2]) <= PlaceOf(v[1], v[2]) /\ PlaceOf(v[1], v[2]) < PlaceOf(e, b))
                  => v[2] % gradient_accumulation_steps # 0}

\* C11: within a call of train() optimizer.step() runs only at batches whose
\* 1-based index is a multiple of gradient_accumulation_steps; the gradients
\* are zeroed at exactly those batches, applied or skipped for NaN
\* (model.zero_grad() runs there and nowhere else, and after such a batch, and
\* after no other, every gradient is as zero_grad leaves it: filled with zeros,
\* or None on a torch whose zero_grad sets it to None); the
\* global_step returned is the one passed in plus the number of steps applied
\* in the call.  The module-level global_step stays 0, so every call starts
\* from 0 and returns a per-epoch count.  The gradients an update steps on are
\* the sum of the backward passes since the last multiple, those after the last
\* boundary of the previous epoch included.
C11_AccumulationAndCounting ==
    /\ global_step = 0
    /\ tally.stepped \subseteq BoundaryBatches(NumBatches)
    /\ tr_pc \in {"step", "copy_back"} => (step + 1) % gradient_accumulation_steps = 0
    /\ tr_pc = "next" =>
          /\ tally.zeroed = BoundaryBatches(step + 1)
          /\ tally.stepped \subseteq tally.zeroed
          /\ AllGradsZero <=> (step + 1) % gradient_accumulation_steps = 0
          /\ tr_global_step = global_step + Cardinality(tally.stepped)
    /\ (tr_pc = "batch" /\ step = 0) => tr_global_step = 0
    /\ (tr_pc \in {"call", "done"} /\ epoch_idx >= 1) =>
          /\ train_result.global_step = global_step + Cardinality(tally.stepped)
          /\ train_result.global_step <= NumBatches \div gradient_accumulation_steps
    /\ tr_pc = "boundary" =>
          /\ SeqToSet(last.batches) = SinceLastBoundary(epoch_idx + 1, step + 1)
          /\ Len(last.batches) = Cardinality(SinceLastBoundary(epoch_idx + 1, step + 1))
    /\ (AfterBoundary /\ last.outcome = "applied") =>
          \A i \in 1..Len(last.step_grads) :
             \/ IsNaN(last.step_grads[i])
             \/ last.step_grads[i] =
                   Num(Rat(Len(last.batches) * i, gradient_accumulation_steps))

\* With two batches a step and an odd number of batches an epoch, the first
\* update of the second epoch has stepped on the gradients of three backward
\* passes, the last batch of the first epoch among them; the first epoch
\* returned global_step = 1 and the second counts from 0 again.
C11_Witness ==
    /\ AfterBoundary
    /\ last.outcome = "applied"
    /\ gradient_accumulation_steps = 2
    /\ NumBatches % 2 = 1
    /\ epoch_idx = 1
    /\ step = 1
    /\ last.batches = <<<<1, NumBatches>>, <<2, 1>>, <<2, 2>>>>
    /\ last.step_grads[1] = Num(<<3, 2>>)
    /\ train_result.global_step = 1
    /\ tr_global_step = 1
    /\ tally.stepped = {2}
    /\ ~set_to_none
    /\ \A i \in 1..Len(model_params) : model_params[i].grad = Num(<<0, 1>>)

\* ---------------------------------- more properties of SpecScript: datasets

\* C12: a run that has passed the start-up checks evaluates only on datasets
\* it has built: when the epoch loop is about to evaluate on the dev set the
\* dev set has been built, when the export is about to evaluate on the dev and
\* test sets both have been built, every dataset an export evaluated had been
\* built, and no run ends with the NameError of a dataset that was never
\* built; do_train without do_eval included.
C12_UsesOnlyLoadedDatasets ==
    /\ sc_pc = "evaluate" => "dev" \in loaded
    /\ (sc_pc = "export" /\ do_eval) => {"dev", "test"} \subseteq loaded
    /\ \A e \in 1..Len(exported) : exported[e].data_type \in loaded
    /\ sc_error # "NameError"

====
